---- MODULE Spec2Model ----
(***************************************************************************)
(* Shared Virtual Addressing for the Intel IOMMU                           *)
(* (drivers/iommu/intel/svm.c): the PASID -> address-space binding         *)
(* registry, the bind / unbind protocols, the page request queue (PRQ)     *)
(* reader, the PRQ drain and the PASID-free cleanup worker.                *)
(*                                                                         *)
(* Objects of the kernel heap (struct intel_svm, struct intel_svm_dev) are *)
(* slots of two small arrays; a pointer is a slot number and 0 is NULL.    *)
(* A freed object keeps its last contents (state "freed") so that a later  *)
(* use of a dangling pointer is seen: every such use is recorded in uaf.   *)
(***************************************************************************)
EXTENDS Integers, Sequences, FiniteSets, TLC

(* -------- the small universe the model is explored in ------------------ *)
Dev      == {1, 2}          \* struct device; the source-ID (sid, rid) of d is d
UserMm   == {1}             \* struct mm_struct of user processes
NULL     == 0               \* the null pointer (also: mm of a supervisor binding)
SvmSlot  == {1, 2}          \* heap slots for struct intel_svm
SdevSlot == {1, 2, 3}       \* heap slots for struct intel_svm_dev

\* PASID_MAX is 1 << 20 in the kernel; the model keeps the structure of the
\* range (0 reserved, 1 .. PASID_MAX-1 usable) on a small number space.
PASID_MAX          == 3
PASID_RID2PASID    == 0
IOASID_ALLOC_BASE  == 1
intel_pasid_max_id == PASID_MAX
Pasid    == 0 .. (PASID_MAX - 1)
AnyPasid == 0 .. PASID_MAX          \* arguments a caller may pass; PASID_MAX is out of range

MaxUsers == 2               \* cap on sdev->users (number of host binds of one device)
MaxPosts == 3               \* page requests the hardware posts in one behaviour
MaxOps == 4               \* calls and environment events of one behaviour
MaxEvents == 4            \* calls, environment events and page requests together
MaxAlgOps == 3            \* calls and environment events before a round trip or a commuting pair
RingSize == 3               \* entries of the page request ring

(* -------- small helpers ------------------------------------------------ *)
Range(s)        == {s[i] : i \in 1 .. Len(s)}
SeqRemove(s, x) == SelectSeq(s, LAMBDA y : y # x)
Min(S)          == CHOOSE x \in S : \A y \in S : x <= y

(* -------- heap objects ------------------------------------------------- *)
\* struct intel_svm after kzalloc
BlankSvm  == [st |-> "free", pasid |-> 0, mm |-> NULL, flags |-> {},
              gpasid |-> 0, devs |-> <<>>]
\* struct intel_svm_dev after kzalloc
BlankSdev == [st |-> "free", dev |-> NULL, sid |-> 0, users |-> 0, pasid |-> 0]
\* one entry of the IOASID allocator
BlankIoasid == [alloc |-> FALSE, set |-> "none", refs |-> 0, data |-> NULL,
                spid |-> 0, pending |-> FALSE]
\* struct mm_struct as far as the driver uses it
BlankMm   == [pasid |-> 0, live |-> TRUE, notifiers |-> {}]

(* -------- device and platform capabilities ----------------------------- *)
\* What the driver reads from get_domain_info(), pci_max_pasids(),
\* iommu_dev_feature_enabled() / is_aux_domain() and ecap_srs(): fixed for a
\* behaviour, chosen at Init among DevConfigs.
\*   pri : devices with info->pri_enabled
\*   ats : devices with info->ats_enabled (a device TLB)
\*   aux : devices with IOMMU_DEV_FEAT_AUX whose domain is an aux domain
\*   max_pasids : pci_max_pasids(dev)
\*   srs : the IOMMU supports supervisor requests
DevConfigs ==
    { [pri |-> {1}, aux |-> {2}, ats |-> {1}, max_pasids |-> [d \in Dev |-> PASID_MAX],
        srs |-> TRUE] }

(* -------- the registry as one value ------------------------------------ *)
\* r.svm, r.sdev        the heap
\* r.global_svm_list    list of host-mode bindings (sequence of svm slots)
\* r.ioasid             the IOASID (PASID) allocator's table
\* r.pte                hardware PASID table entries, per device and PASID
\* r.mm                 the user address spaces
\* r.fdata              per-(device, pasid) fault data of the IOMMU core
\* r.uaf                uses of freed memory by code holding pasid_mutex
\* r.cfg                the capabilities above
InitReg(c) ==
    [svm    |-> [s \in SvmSlot |-> BlankSvm],
     sdev   |-> [s \in SdevSlot |-> BlankSdev],
     global_svm_list |-> <<>>,
     ioasid |-> [p \in Pasid |-> BlankIoasid],
     pte    |-> [d \in Dev |-> [p \in Pasid |-> "clear"]],
     mm     |-> [m \in UserMm |-> BlankMm],
     fdata  |-> {},
     uaf    |-> {},
     cfg    |-> c]

\* kzalloc(): a free slot, or NULL when there is none (or the allocation fails)
FreeSvmSlots(r)  == {s \in SvmSlot : r.svm[s].st = "free"}
FreeSdevSlots(r) == {s \in SdevSlot : r.sdev[s].st = "free"}

\* kfree(svm) / kfree(sdev): the object keeps its contents, marked freed
kfree_svm(r, s)  ==
    IF r.svm[s].st = "live"
    THEN [r EXCEPT !.svm[s].st = "freed"]
    ELSE [r EXCEPT !.uaf = @ \cup {"double_free_svm"}]
\* kfree_rcu(sdev, rcu): freed once a grace period has elapsed; a second
\* kfree_rcu or a kfree_rcu of freed memory is recorded as a double free
kfree_rcu(r, s) ==
    IF r.sdev[s].st = "live"
    THEN [r EXCEPT !.sdev[s].st = "rcu"]
    ELSE [r EXCEPT !.uaf = @ \cup {"double_free_sdev"}]

(* -------- the IOASID allocator (drivers/iommu/ioasid.c) ----------------- *)
INVALID_IOASID == -1

\* an allocator that ignores the upper end of the requested range
ioasid_alloc_IgnoreMax(r, set, min, max, private) ==
    LET free == {p \in Pasid : p >= min /\ ~r.ioasid[p].alloc}
    IN IF free = {} THEN [r |-> r, id |-> INVALID_IOASID]
       ELSE LET id == Min(free)
            IN [r  |-> [r EXCEPT !.ioasid[id] =
                          [alloc |-> TRUE, set |-> set, refs |-> 1,
                           data |-> private, spid |-> 0, pending |-> FALSE]],
                id |-> id]
ioasid_alloc(r, set, min, max, private) ==
    LET free == {p \in Pasid : p >= min /\ p <= max /\ ~r.ioasid[p].alloc}
    IN IF free = {} THEN [r |-> r, id |-> INVALID_IOASID]
       ELSE LET id == Min(free)
            IN [r  |-> [r EXCEPT !.ioasid[id] =
                          [alloc |-> TRUE, set |-> set, refs |-> 1,
                           data |-> private, spid |-> 0, pending |-> FALSE]],
                id |-> id]

\* no new reference once the IOASID is being freed (FREE_PENDING)
ioasid_get(r, p) ==
    IF r.ioasid[p].alloc /\ ~r.ioasid[p].pending
    THEN [r EXCEPT !.ioasid[p].refs = @ + 1]
    ELSE r

\* the last reference releases the IOASID
ioasid_put(r, p) ==
    IF ~r.ioasid[p].alloc THEN r
    ELSE IF r.ioasid[p].refs <= 1
         THEN [r EXCEPT !.ioasid[p] = BlankIoasid]
         ELSE [r EXCEPT !.ioasid[p].refs = @ - 1]

ioasid_attach_data(r, p, private) ==
    IF r.ioasid[p].alloc THEN [r EXCEPT !.ioasid[p].data = private] ELSE r
ioasid_detach_data(r, p) ==
    IF r.ioasid[p].alloc THEN [r EXCEPT !.ioasid[p].data = NULL] ELSE r
ioasid_attach_spid(r, p, spid) ==
    IF r.ioasid[p].alloc THEN [r EXCEPT !.ioasid[p].spid = spid] ELSE r
ioasid_detach_spid(r, p) ==
    IF r.ioasid[p].alloc THEN [r EXCEPT !.ioasid[p].spid = 0] ELSE r

\* ioasid_find(set, ioasid, NULL): the private data, NULL when none is
\* attached, an error when the IOASID is not allocated or not of the set
ioasid_find(r, set, p) ==
    IF p \notin Pasid \/ ~r.ioasid[p].alloc THEN [err |-> "-ENOENT", svm |-> NULL]
    ELSE IF set # "any" /\ r.ioasid[p].set # set THEN [err |-> "-EACCES", svm |-> NULL]
    ELSE [err |-> "0", svm |-> r.ioasid[p].data]

(* -------- hardware PASID table and address-space primitives ------------ *)
\* intel_pasid_setup_first_level() / intel_pasid_setup_nested()
intel_pasid_setup(r, dev, pasid, mode) == [r EXCEPT !.pte[dev][pasid] = mode]
\* intel_pasid_tear_down_entry(iommu, dev, pasid, fault_ignore, keep_pte)
intel_pasid_tear_down_entry(r, dev, pasid, keep_pte) ==
    IF pasid \notin Pasid THEN r
    ELSE [r EXCEPT !.pte[dev][pasid] = IF keep_pte THEN "second_level" ELSE "clear"]

mmu_notifier_register(r, s, mm)   == [r EXCEPT !.mm[mm].notifiers = @ \cup {s}]
mmu_notifier_unregister(r, s, mm) == [r EXCEPT !.mm[mm].notifiers = @ \ {s}]
PASID_DISABLED == 0
load_pasid(r, mm, pasid) == [r EXCEPT !.mm[mm].pasid = pasid]

(* -------- list traversal ------------------------------------------------ *)
\* index of the first device binding of list devs that belongs to dev, or 0
FirstDev(r, devs, dev) ==
    LET hit == {i \in 1 .. Len(devs) : r.sdev[devs[i]].dev = dev}
    IN IF hit = {} THEN 0 ELSE Min(hit)
\* index of the first device binding of list devs with source-ID sid, or 0
FirstSid(r, devs, sid) ==
    LET hit == {i \in 1 .. Len(devs) : r.sdev[devs[i]].sid = sid}
    IN IF hit = {} THEN 0 ELSE Min(hit)
\* the nodes a traversal that stopped at index i (0: ran to the end) has read
Visited(devs, i) == {devs[j] : j \in 1 .. (IF i = 0 THEN Len(devs) ELSE i)}
\* some node that was read is freed memory
ReadsFreedSdev(r, nodes) == \E n \in nodes : r.sdev[n].st \in {"freed", "free"}
ReadsFreedSvm(r, s)      == s # NULL /\ r.svm[s].st \in {"freed", "free"}
Tag(cond, tag) == IF cond THEN {tag} ELSE {}

(* -------- pasid_to_svm_sdev --------------------------------------------- *)
pasid_to_svm_sdev(r, dev, set, pasid) ==
    IF pasid = INVALID_IOASID \/ pasid >= PASID_MAX
    THEN [ret |-> "-EINVAL", svm |-> NULL, sdev |-> NULL, uaf |-> {}]
    ELSE LET f == ioasid_find(r, set, pasid)
         IN IF f.err # "0" /\ pasid # PASID_RID2PASID
            THEN [ret |-> f.err, svm |-> NULL, sdev |-> NULL, uaf |-> {}]
            ELSE IF f.err # "0" \/ f.svm = NULL
            THEN [ret |-> "0", svm |-> NULL, sdev |-> NULL, uaf |-> {}]
            ELSE LET devs == r.svm[f.svm].devs
                     i    == FirstDev(r, devs, dev)
                     u    == Tag(ReadsFreedSvm(r, f.svm), "lookup_svm")
                             \cup Tag(ReadsFreedSdev(r, Visited(devs, i)), "lookup_sdev")
                 IN IF devs = <<>>
                    THEN [ret |-> "-EINVAL", svm |-> NULL, sdev |-> NULL, uaf |-> u]
                    ELSE [ret |-> "0", svm |-> f.svm,
                          sdev |-> IF i = 0 THEN NULL ELSE devs[i], uaf |-> u]

(* -------- intel_svm_bind_mm (caller holds pasid_mutex) ------------------- *)
\* fail names the step that fails in this call ("none": no failure):
\*   "sdev_alloc", "svm_alloc" (kzalloc), "enable_pasid", "notifier"
\*   (mmu_notifier_register), "setup" (intel_pasid_setup_first_level)
BindFail == {"none", "sdev_alloc", "enable_pasid", "svm_alloc", "notifier", "setup"}

\* the binding of global_svm_list that the search loop stops at (0: none)
FindSvmByMm(r, mm) ==
    LET l   == r.global_svm_list
        hit == {i \in 1 .. Len(l) : r.svm[l[i]].mm = mm}
    IN IF hit = {} THEN NULL ELSE l[Min(hit)]

\* a repeated bind that forgets the count
BindMmExisting_NoCount(r, sd, s) == r
\* a repeated bind of a device: one more user of the existing sdev
BindMmExisting(r, sd, s) ==
    [r EXCEPT !.sdev[sd].users = @ + 1, !.sdev[sd].pasid = r.svm[s].pasid]

\* the new sdev as filled in at lines 721-743
NewHostSdev(dev) ==
    [st |-> "live", dev |-> dev, sid |-> dev, users |-> 1, pasid |-> 0]

\* a first bind that fails at the PASID entry and keeps the PASID it allocated
BindMmNewSvm_NoPut(r, dev, flags, mm, fail, sd, pasid_max0) ==
    [r    |-> ioasid_alloc(r, "host", IOASID_ALLOC_BASE, pasid_max0 - 1, NULL).r,
     ret  |-> "-EINVAL", sdev |-> NULL]
\* lines 745-802: first bind of the address space
BindMmNewSvm(r, dev, flags, mm, fail, sd, pasid_max0) ==
    LET fs == FreeSvmSlots(r)
    IN IF fail = "svm_alloc" \/ fs = {}
       THEN [r |-> r, ret |-> "-ENOMEM", sdev |-> NULL]
       ELSE
       LET s         == Min(fs)
           pasid_max == IF pasid_max0 > intel_pasid_max_id
                        THEN intel_pasid_max_id ELSE pasid_max0
           a  == ioasid_alloc(r, "host", IOASID_ALLOC_BASE, pasid_max - 1, s)
       IN IF a.id = INVALID_IOASID
          THEN [r |-> r, ret |-> "-ENOSPC", sdev |-> NULL]
          ELSE IF mm # NULL /\ fail = "notifier"
          THEN [r |-> ioasid_put(a.r, a.id), ret |-> "-ENOMEM", sdev |-> NULL]
          ELSE IF fail = "setup"
          THEN [r |-> ioasid_put(a.r, a.id), ret |-> "-EINVAL", sdev |-> NULL]
          ELSE
          LET r1 == [a.r EXCEPT !.svm[s] =
                        [st |-> "live", pasid |-> a.id, mm |-> mm, flags |-> flags,
                         gpasid |-> 0, devs |-> <<sd>>],
                                !.sdev[sd] = [NewHostSdev(dev) EXCEPT !.pasid = a.id]]
              r2 == IF mm # NULL THEN mmu_notifier_register(r1, s, mm) ELSE r1
              r3 == intel_pasid_setup(r2, dev, a.id,
                       IF mm # NULL THEN "first_level" ELSE "supervisor")
              r4 == [r3 EXCEPT !.global_svm_list = Append(@, s)]
              r5 == IF mm # NULL THEN load_pasid(r4, mm, a.id) ELSE r4
          IN [r |-> r5, ret |-> "0", sdev |-> sd]

\* lines 803-821: a further device for an existing binding
BindMmNewDev(r, dev, mm, fail, sd, s) ==
    IF fail = "setup"
    THEN [r |-> r, ret |-> "-EINVAL", sdev |-> NULL]
    ELSE LET p  == r.svm[s].pasid
             r1 == intel_pasid_setup(r, dev, p,
                      IF mm # NULL THEN "first_level" ELSE "supervisor")
             r2 == [r1 EXCEPT !.sdev[sd] = [NewHostSdev(dev) EXCEPT !.pasid = p],
                              !.svm[s].devs = <<sd>> \o @]
         IN [r |-> r2, ret |-> "0", sdev |-> sd]

intel_svm_bind_mm(r, dev, flags, mm, fail) ==
    LET pasid_max == r.cfg.max_pasids[dev]
        t  == FindSvmByMm(r, mm)
        i  == IF t = NULL THEN 0 ELSE FirstDev(r, r.svm[t].devs, dev)
        ru == IF t = NULL THEN r
              ELSE [r EXCEPT !.uaf = @ \cup
                       Tag(ReadsFreedSvm(r, t), "bind_svm") \cup
                       Tag(ReadsFreedSdev(r, Visited(r.svm[t].devs, i)), "bind_sdev")]
        fd == FreeSdevSlots(r)
    IN IF pasid_max < 0
       THEN [r |-> r, ret |-> "-EINVAL", sdev |-> NULL]
       ELSE IF "SUPERVISOR_MODE" \in flags /\ (~r.cfg.srs \/ mm # NULL)
       THEN [r |-> r, ret |-> "-EINVAL", sdev |-> NULL]
       ELSE IF t # NULL /\ r.svm[t].pasid >= pasid_max
       THEN [r |-> [r EXCEPT !.uaf = @ \cup Tag(ReadsFreedSvm(r, t), "bind_svm")],
             ret |-> "-ENOSPC", sdev |-> NULL]
       ELSE IF i # 0
       THEN [r |-> BindMmExisting(ru, r.svm[t].devs[i], t), ret |-> "0",
             sdev |-> r.svm[t].devs[i]]
       ELSE IF fail = "sdev_alloc" \/ fd = {}
       THEN [r |-> ru, ret |-> "-ENOMEM", sdev |-> NULL]
       ELSE IF fail = "enable_pasid"
       THEN [r |-> ru, ret |-> "-EINVAL", sdev |-> NULL]
       ELSE IF t = NULL
       THEN BindMmNewSvm(ru, dev, flags, mm, fail, Min(fd), pasid_max)
       ELSE BindMmNewDev(ru, dev, mm, fail, Min(fd), t)

(* -------- intel_svm_unbind_mm (caller holds pasid_mutex) ----------------- *)
\* a teardown that clears the PASID entries of every device
UnbindMmDrop_AllEntries(r, dev, s, sd) ==
    [r EXCEPT !.svm[s].devs = SeqRemove(@, sd),
              !.pte = [d \in Dev |-> [p \in Pasid |-> "clear"]]]
\* lines 852-861: the last user leaves, the device binding is unlinked and the
\* PASID entry of the device cleared
UnbindMmDrop(r, dev, s, sd) ==
    intel_pasid_tear_down_entry([r EXCEPT !.svm[s].devs = SeqRemove(@, sd)],
                                dev, r.svm[s].pasid, FALSE)

\* lines 840-861: up to the call of intel_svm_drain_prq.  drain tells
\* whether the device binding was removed, so that drain and the rest follow.
UnbindMmPre(r, dev, pasid) ==
    LET l == pasid_to_svm_sdev(r, dev, "host", pasid)
        ru == [r EXCEPT !.uaf = @ \cup l.uaf]
    IN IF l.ret # "0" \/ l.sdev = NULL
       THEN [r |-> ru, ret |-> l.ret, svm |-> l.svm, sdev |-> l.sdev, drain |-> FALSE]
       ELSE LET r1 == [ru EXCEPT !.sdev[l.sdev].users = @ - 1]
            IN IF r1.sdev[l.sdev].users # 0
               THEN [r |-> r1, ret |-> "0", svm |-> l.svm, sdev |-> l.sdev,
                     drain |-> FALSE]
               ELSE [r |-> UnbindMmDrop(r1, dev, l.svm, l.sdev), ret |-> "0",
                     svm |-> l.svm, sdev |-> l.sdev, drain |-> TRUE]

\* a destruction that leaves the observer of the binding attached
FreeHostSvmSteps_NoUnregister(r, s) ==
    LET r1 == ioasid_put(r, r.svm[s].pasid)
        r3 == [r1 EXCEPT !.global_svm_list = SeqRemove(@, s)]
    IN <<r1, r1, r3, kfree_svm(r3, s)>>

\* lines 865-879: the last device is gone, the binding is destroyed.  The
\* registry after each statement, in the order of the code: ioasid_put (866),
\* mmu_notifier_unregister and load_pasid (867-871), list_del (872), kfree
\* (877-878)
FreeHostSvmSteps(r, s) ==
    LET p  == r.svm[s].pasid
        m  == r.svm[s].mm
        r1 == ioasid_put(r, p)
        r2 == IF m # NULL
              THEN load_pasid(mmu_notifier_unregister(r1, s, m), m, PASID_DISABLED)
              ELSE r1
        r3 == [r2 EXCEPT !.global_svm_list = SeqRemove(@, s)]
    IN <<r1, r2, r3, kfree_svm(r3, s)>>

FreeHostSvm(r, s) == FreeHostSvmSteps(r, s)[4]

\* lines 863-879: after intel_svm_drain_prq has returned
UnbindMmPost(r, s, sd) ==
    LET r1 == kfree_rcu(r, sd)
    IN IF r1.svm[s].devs = <<>> THEN FreeHostSvm(r1, s) ELSE r1

(* -------- intel_svm_bind_gpasid ----------------------------------------- *)
\* The bind data of a call: hpasid, the guest PASID (0: IOMMU_SVA_GPASID_VAL
\* clear) and whether fault data was passed.  Calls carry no
\* IOMMU_SVA_HPASID_DEF.
GuestFail == {"none", "svm_alloc", "sdev_alloc", "enable_pasid", "setup"}

iommu_add_device_fault_data(r, dev, pasid)    == [r EXCEPT !.fdata = @ \cup {<<dev, pasid>>}]
iommu_delete_device_fault_data(r, dev, pasid) == [r EXCEPT !.fdata = @ \ {<<dev, pasid>>}]

\* lines 404-459: validation and fault data, before pasid_mutex is taken
BindGpasidPre(r, dev, data) ==
    IF r.cfg.max_pasids[dev] # PASID_MAX
    THEN [r |-> r, ret |-> "-EINVAL"]
    ELSE IF data.hpasid <= 0 \/ data.hpasid >= PASID_MAX
    THEN [r |-> r, ret |-> "-EINVAL"]
    ELSE IF dev \in r.cfg.aux /\ data.fault_data
    THEN [r |-> iommu_add_device_fault_data(r, dev, data.hpasid), ret |-> "0"]
    ELSE [r |-> r, ret |-> "0"]

\* lines 461-501: lookup, duplicate check, creation of the binding.
\* go tells whether the call continues at line 502 (otherwise at out:).
BindGpasidSvm(r, dev, data, fail) ==
    LET l  == pasid_to_svm_sdev(r, dev, "any", data.hpasid)
        ru == [r EXCEPT !.uaf = @ \cup l.uaf]
        fs == FreeSvmSlots(r)
    IN IF l.ret # "0"
       THEN [r |-> ru, ret |-> l.ret, svm |-> NULL, go |-> FALSE]
       ELSE IF l.sdev # NULL
       THEN [r |-> ru, ret |-> "-EBUSY", svm |-> l.svm, go |-> FALSE]
       ELSE IF l.svm # NULL
       THEN [r |-> ru, ret |-> "0", svm |-> l.svm, go |-> TRUE]
       ELSE IF fail = "svm_alloc" \/ fs = {}
       THEN [r |-> ru, ret |-> "-ENOMEM", svm |-> NULL, go |-> FALSE]
       ELSE LET s  == Min(fs)
                r1 == [ru EXCEPT !.svm[s] =
                         [st |-> "live", pasid |-> data.hpasid, mm |-> NULL,
                          flags |-> IF data.gpasid # 0 THEN {"GUEST_PASID"} ELSE {},
                          gpasid |-> data.gpasid, devs |-> <<>>]]
                r2 == IF data.gpasid # 0
                      THEN ioasid_attach_spid(r1, data.hpasid, data.gpasid) ELSE r1
                r3 == ioasid_get(ioasid_attach_data(r2, data.hpasid, s), data.hpasid)
            IN [r |-> r3, ret |-> "0", svm |-> s, go |-> TRUE]

\* the new sdev as filled in at lines 507-514
NewGuestSdev(r, dev) ==
    [st |-> "live", dev |-> dev, sid |-> dev,
     users |-> IF dev \in r.cfg.aux THEN 1 ELSE 0, pasid |-> 0]

\* lines 555-559, the label out: a binding left without device is dropped
BindGpasidOut(r, data, s) ==
    IF s # NULL /\ r.svm[s].devs = <<>>
    THEN kfree_svm(ioasid_detach_data(r, data.hpasid), s)
    ELSE r

\* lines 502-564: the device binding and the nested PASID entry, then out:
BindGpasidDev(r, dev, data, s, ret0, go, fail) ==
    LET fd == FreeSdevSlots(r)
    IN IF ~go
       THEN [r |-> BindGpasidOut(r, data, s), ret |-> ret0]
       ELSE IF fail = "sdev_alloc" \/ fd = {}
       THEN [r |-> BindGpasidOut(r, data, s), ret |-> "-ENOMEM"]
       ELSE IF fail \in {"enable_pasid", "setup"}
       THEN [r |-> BindGpasidOut(r, data, s), ret |-> "-EINVAL"]
       ELSE LET sd == Min(fd)
                r1 == intel_pasid_setup(r, dev, data.hpasid, "nested")
                r2 == [r1 EXCEPT !.sdev[sd] = NewGuestSdev(r, dev),
                                 !.svm[s].flags = @ \cup {"GUEST_MODE"},
                                 !.svm[s].devs = <<sd>> \o @]
            IN [r |-> BindGpasidOut(r2, data, s), ret |-> "0"]

\* lines 566-569: after pasid_mutex is released
BindGpasidPost(r, dev, data, ret) ==
    IF ret # "0" /\ dev \in r.cfg.aux /\ data.fault_data
    THEN iommu_delete_device_fault_data(r, dev, data.hpasid)
    ELSE r

(* -------- intel_svm_unbind_gpasid --------------------------------------- *)
\* lines 598-609: up to the call of intel_svm_drain_prq
UnbindGpasidPre(r, dev, pasid) ==
    LET l  == pasid_to_svm_sdev(r, dev, "any", pasid)
        ru == [r EXCEPT !.uaf = @ \cup l.uaf]
    IN IF l.ret # "0" \/ l.sdev = NULL
       THEN [r |-> ru, ret |-> l.ret, svm |-> l.svm, sdev |-> l.sdev, drain |-> FALSE]
       ELSE LET r1 == IF dev \in r.cfg.aux
                      THEN [ru EXCEPT !.sdev[l.sdev].users = @ - 1] ELSE ru
            IN IF r1.sdev[l.sdev].users # 0
               THEN [r |-> r1, ret |-> "0", svm |-> l.svm, sdev |-> l.sdev,
                     drain |-> FALSE]
               ELSE LET r2 == [r1 EXCEPT !.svm[l.svm].devs = SeqRemove(@, l.sdev)]
                        r3 == intel_pasid_tear_down_entry(r2, dev,
                                                          r.svm[l.svm].pasid, FALSE)
                    IN [r |-> r3, ret |-> "0", svm |-> l.svm, sdev |-> l.sdev,
                        drain |-> TRUE]

\* intel_svm_drop_pasid(pasid, flags) without IOMMU_SVA_HPASID_DEF
intel_svm_drop_pasid(r, pasid) ==
    ioasid_put(ioasid_detach_data(ioasid_detach_spid(r, pasid), pasid), pasid)

\* lines 612-624: after intel_svm_drain_prq has returned
UnbindGpasidPost(r, pasid, s) ==
    IF r.svm[s].devs = <<>>
    THEN kfree_svm(intel_svm_drop_pasid(r, pasid), s)
    ELSE r

\* lines 629-638: after pasid_mutex is released.  When the lookup failed
\* (ret is an error) sdev was never written: the test at line 629 reads an
\* uninitialised pointer, and with wild it is not NULL and is handed to
\* kfree_rcu.
UnbindGpasidTail(r, dev, pasid, sd, ret, wild) ==
    IF ret # "0"
    THEN [r EXCEPT !.uaf = @ \cup Tag(wild, "kfree_rcu_uninitialised_sdev")]
    ELSE IF sd = NULL THEN r
    ELSE kfree_rcu(IF dev \in r.cfg.aux
                   THEN iommu_delete_device_fault_data(r, dev, pasid) ELSE r, sd)

(* -------- the calls as functions of the registry ------------------------ *)
\* Each call from entry to return when no other thread runs in between and
\* no page request is pending (intel_svm_drain_prq then changes nothing).
\* The result of each part of a call is a value of its own (the member of a
\* one-element set) that the next part starts from.
Only(S) == CHOOSE x \in S : TRUE

intel_svm_unbind_mm(r, dev, pasid) ==
    Only({[r   |-> IF u.drain THEN UnbindMmPost(u.r, u.svm, u.sdev) ELSE u.r,
           ret |-> u.ret] : u \in {UnbindMmPre(r, dev, pasid)}})

intel_svm_bind_gpasid(r, dev, data, fail) ==
    Only({IF a.ret # "0" THEN [r |-> a.r, ret |-> a.ret]
          ELSE Only({Only({[r |-> BindGpasidPost(c.r, dev, data, c.ret), ret |-> c.ret] :
                              c \in {BindGpasidDev(b.r, dev, data, b.svm, b.ret, b.go,
                                                   fail)}}) :
                        b \in {BindGpasidSvm(a.r, dev, data, fail)}}) :
             a \in {BindGpasidPre(r, dev, data)}})

intel_svm_unbind_gpasid(r, dev, pasid, wild) ==
    Only({Only({[r |-> UnbindGpasidTail(r1, dev, pasid, u.sdev, u.ret, wild),
                 ret |-> u.ret] :
                   r1 \in {IF u.drain THEN UnbindGpasidPost(u.r, pasid, u.svm)
                                      ELSE u.r}}) :
             u \in {UnbindGpasidPre(r, dev, pasid)}})

(* -------- intel_svm_free_async_fn (the PASID-free cleanup worker) ------- *)
\* lines 128-133: one device binding is unlinked and its PASID entry cleared
\* (intel_svm_drain_prq follows)
WorkerDevPre(r, s, sd) ==
    LET ru == [r EXCEPT !.uaf = @ \cup Tag(ReadsFreedSvm(r, s), "worker_svm")
                                   \cup Tag(ReadsFreedSdev(r, {sd}), "worker_sdev")]
        r1 == [ru EXCEPT !.svm[s].devs = SeqRemove(@, sd)]
    IN intel_pasid_tear_down_entry(r1, r.sdev[sd].dev, r.svm[s].pasid, FALSE)

\* lines 136-150: only the sdev of an aux domain is handed to kfree_rcu
WorkerDevPost(r, sd) ==
    IF r.sdev[sd].dev \in r.cfg.aux THEN kfree_rcu(r, sd) ELSE r

\* lines 157-167: the PASID reference is dropped and the binding freed
WorkerEnd(r, s) ==
    kfree_svm(intel_svm_drop_pasid(r, r.svm[s].pasid), s)

\* lines 171-179: fault data of the recorded aux devices, outside pasid_mutex
WorkerTail(r, subdevs, pasid) ==
    [r EXCEPT !.fdata = @ \ {<<d, pasid>> : d \in subdevs}]

(* -------- intel_mm_release (address-space observer) ---------------------- *)
\* the PASID entry of every device of the binding is cleared
intel_mm_release(r, s) ==
    LET devs == r.svm[s].devs
        ru   == [r EXCEPT !.uaf = @ \cup Tag(ReadsFreedSvm(r, s), "release_svm")
                              \cup Tag(ReadsFreedSdev(r, Range(devs)), "release_sdev")]
    IN [ru EXCEPT !.pte = [d \in Dev |-> [p \in Pasid |->
            IF p = r.svm[s].pasid /\ \E n \in Range(devs) : r.sdev[n].dev = d
            THEN "clear" ELSE r.pte[d][p]]]]

\* exit of an address space: no further reference can be taken, the release
\* callback of every attached observer runs and the observers are detached
RECURSIVE ReleaseAll(_, _)
ReleaseAll(r, ss) ==
    IF ss = {} THEN r
    ELSE LET s == Min(ss) IN ReleaseAll(intel_mm_release(r, s), ss \ {s})

MmExitReg(r, m) ==
    LET r1 == ReleaseAll(r, r.mm[m].notifiers)
    IN [r1 EXCEPT !.mm[m].live = FALSE, !.mm[m].notifiers = {}]

(* -------- intel_invalidate_range (address-space observer) --------------- *)
\* Addresses are unsigned long values of BITS_PER_LONG bits, a page has
\* 2^VTD_PAGE_SHIFT bytes and user addresses lie below TASK_SIZE (the widths
\* are scaled down, user space staying a small part of the word).
BITS_PER_LONG  == 6
VTD_PAGE_SHIFT == 1
TASK_SIZE      == 16
ULong(x) == x % (2 ^ BITS_PER_LONG)

\* include/linux/log2.h and include/linux/align.h
RECURSIVE fls_long(_)
fls_long(x) == IF x = 0 THEN 0 ELSE 1 + fls_long(x \div 2)
ilog2(n) == fls_long(n) - 1
__roundup_pow_of_two(n) == ULong(2 ^ fls_long(n - 1))
order_base_2(n) == IF n <= 1 THEN 0 ELSE ilog2(n - 1) + 1
ALIGN_DOWN(x, a) == x - (x % a)
ALIGN(x, a) == ALIGN_DOWN(ULong(x + a - 1), a)

\* lines 247-261: one PASID-based IOTLB flush of pages pages at address and,
\* for a device with ATS, the device-TLB flush of the matching order
__flush_svm_range_dev(ats, address, pages) ==
    IF pages = 0 THEN <<>>
    ELSE <<[address |-> address, pages |-> pages, dev_tlb |-> ats,
            order |-> order_base_2(pages)]>>

\* a flush loop that stops after the first block
FlushBlocks_One(ats, start, end, align) ==
    IF start < end THEN __flush_svm_range_dev(ats, start, align \div (2 ^ VTD_PAGE_SHIFT))
    ELSE <<>>
\* lines 273-276: the loop over the aligned blocks
RECURSIVE FlushBlocks(_, _, _, _)
FlushBlocks(ats, start, end, align) ==
    IF start < end
    THEN __flush_svm_range_dev(ats, start, align \div (2 ^ VTD_PAGE_SHIFT))
         \o FlushBlocks(ats, ULong(start + align), end, align)
    ELSE <<>>

\* lines 263-277: the flushes of one device, in order
intel_flush_svm_range_dev(ats, address, pages) ==
    LET shift == ilog2(__roundup_pow_of_two(pages))
        align == ULong(2 ^ (VTD_PAGE_SHIFT + shift))
        start == ALIGN_DOWN(address, align)
        end   == ALIGN(ULong(address + ULong(pages * (2 ^ VTD_PAGE_SHIFT))), align)
    IN FlushBlocks(ats, start, end, align)

\* lines 279-288: every device of the binding
intel_flush_svm_range(r, s, address, pages) ==
    [i \in 1 .. Len(r.svm[s].devs) |->
        LET d == r.sdev[r.svm[s].devs[i]].dev
        IN [dev |-> d, flushes |-> intel_flush_svm_range_dev(d \in r.cfg.ats, address, pages)]]

\* lines 291-300
intel_invalidate_range(r, s, start, end) ==
    intel_flush_svm_range(r, s, start,
        ULong(end - start + (2 ^ VTD_PAGE_SHIFT) - 1) \div (2 ^ VTD_PAGE_SHIFT))

(* -------- pasid_status_change and the external owner of guest PASIDs ---- *)
\* the notifier: TRUE when the cleanup work of the attached binding is queued
pasid_status_change(r, id) ==
    LET s == r.ioasid[id].data
    IN s # NULL /\ r.svm[s].pasid = id

\* ioasid_free() by the owner of a guest PASID: the FREE notification is
\* sent, the owner's reference dropped; with references left the IOASID
\* stays in the FREE_PENDING state
IoasidFreeReg(r, id) ==
    LET r1 == [r EXCEPT !.ioasid[id].pending = TRUE]
    IN ioasid_put(r1, id)

(***************************************************************************)
(* The state                                                               *)
(***************************************************************************)
VARIABLES
    reg,            \* the registry, heap, IOASID table, PASID table (see InitReg)
    th,             \* the call in progress of each thread (caller, worker)
    pasid_mutex,    \* the thread that holds pasid_mutex, or "free"
    work,           \* queued cleanup work: the svm of each queued work_struct
    handles,        \* iommu_sva handles held by drivers, per sdev (a count)
    rd,             \* the PRQ thread (prq_event_thread): position and locals
    prq,            \* iommu->prq, the ring of page request descriptors
    pqh, pqt,       \* DMAR_PQH_REG, DMAR_PQT_REG as ring indices
    prs,            \* DMAR_PRS_REG: ppr (pending page request), pro (overflow)
    prq_complete,   \* iommu->prq_complete.done
    resp,           \* page group responses submitted so far, in order
    unbound,        \* (device, pasid) pairs whose unbind has returned
    nops, nposts,   \* calls started and page requests posted so far
    alg             \* results of the algebraic experiments (SpecAlg only)

vars == <<reg, th, pasid_mutex, work, handles, rd, prq, pqh, pqt, prs,
          prq_complete, resp, unbound, nops, nposts, alg>>

Thread == {"caller", "worker"}

NoData == [hpasid |-> 0, gpasid |-> 0, fault_data |-> FALSE]
\* a thread that is in no call
Idle == [op |-> "idle", pc |-> "idle", dev |-> NULL, pasid |-> 0, svm |-> NULL,
         sdev |-> NULL, ret |-> "0", data |-> NoData, go |-> FALSE,
         fail |-> "none", todo |-> <<>>, subdevs |-> {}, after |-> "idle"]

\* a page request descriptor (struct page_req_dsc); seq numbers the requests
\* in the order the hardware posted them
NoDesc == [seq |-> 0, pasid_present |-> FALSE, pasid |-> 0, rid |-> 0,
           rd_req |-> FALSE, wr_req |-> FALSE, exe_req |-> FALSE, pm_req |-> FALSE,
           lpig |-> FALSE, priv_data_present |-> FALSE, prg_index |-> 0,
           priv_data |-> 0, addr |-> "ok"]

\* the PRQ thread outside prq_event_thread
RdIdle == [pc |-> "idle", head |-> 0, tail |-> 0, svm |-> NULL, sdev |-> NULL,
           result |-> "INVALID", late |-> FALSE]
ERR_PTR == -1

(* -------- reuse of freed memory ----------------------------------------- *)
\* A freed object is kept as long as some pointer to it exists, so that the
\* use of that pointer is seen; once unreferenced its slot is free again.
SvmRoots(r, t, q, w) ==
    {r.ioasid[p].data : p \in Pasid} \cup Range(r.global_svm_list)
    \cup UNION {r.mm[m].notifiers : m \in UserMm}
    \cup {t[x].svm : x \in Thread} \cup {q.svm} \cup w
SdevRoots(r, t, q, h) ==
    UNION {Range(r.svm[s].devs) : s \in SvmSlot}
    \cup {t[x].sdev : x \in Thread} \cup UNION {Range(t[x].todo) : x \in Thread}
    \cup {q.sdev} \cup {s \in SdevSlot : h[s] > 0}
Gc(r, t, q, w, h) ==
    LET r1 == [r EXCEPT !.svm = [s \in SvmSlot |->
                  IF r.svm[s].st = "freed" /\ s \notin SvmRoots(r, t, q, w)
                  THEN BlankSvm ELSE r.svm[s]]]
    IN [r1 EXCEPT !.sdev = [s \in SdevSlot |->
                  IF r1.sdev[s].st = "freed" /\ s \notin SdevRoots(r1, t, q, h)
                  THEN BlankSdev ELSE r1.sdev[s]]]
\* the registry after a step (the other variables are set before)
Commit(r) == reg' = Gc(r, th', rd', work', handles')

Init ==
    /\ reg \in {InitReg(c) : c \in DevConfigs}
    /\ th = [t \in Thread |-> Idle]
    /\ pasid_mutex = "free"
    /\ work = {}
    /\ handles = [s \in SdevSlot |-> 0]
    /\ rd = RdIdle
    /\ prq = [i \in 0 .. (RingSize - 1) |-> NoDesc]
    /\ pqh = 0 /\ pqt = 0
    /\ prs = [ppr |-> FALSE, pro |-> FALSE]
    /\ prq_complete = 0
    /\ resp = <<>>
    /\ unbound = {}
    /\ nops = 0 /\ nposts = 0
    /\ alg = [kind |-> "none"]

(***************************************************************************)
(* Calls of the driver's interface (thread "caller")                       *)
(***************************************************************************)
HostFlags == {{}, {"SUPERVISOR_MODE"}}
BindData  == {[hpasid |-> p, gpasid |-> g, fault_data |-> f] :
                 p \in AnyPasid, g \in {0, 1}, f \in {FALSE}}

\* one more call or environment event fits the bounds
Budget == nops < MaxOps /\ nops + nposts < MaxEvents
CallerFree == th["caller"].pc = "idle" /\ pasid_mutex = "free" /\ Budget

\* the device binding a host bind of dev to mm would find, or NULL
ExistingSdev(r, dev, mm) ==
    LET t == FindSvmByMm(r, mm)
        i == IF t = NULL THEN 0 ELSE FirstDev(r, r.svm[t].devs, dev)
    IN IF i = 0 THEN NULL ELSE r.svm[t].devs[i]

\* intel_svm_bind: pasid_mutex is taken, intel_svm_bind_mm runs, the handle
\* of the device binding is returned
intel_svm_bind(dev, mm, flags, fail) ==
    LET b  == intel_svm_bind_mm(reg, dev, flags, mm, fail)
        e  == ExistingSdev(reg, dev, mm)
    IN /\ CallerFree
       /\ mm # NULL => reg.mm[mm].live
       /\ e # NULL => reg.sdev[e].users < MaxUsers
       /\ nops' = nops + 1
       /\ handles' = IF b.ret = "0" THEN [handles EXCEPT ![b.sdev] = @ + 1] ELSE handles
       /\ unbound' = IF b.ret = "0"
                     THEN unbound \ {<<dev, b.r.sdev[b.sdev].pasid>>} ELSE unbound
       /\ UNCHANGED <<th, pasid_mutex, work, rd, prq, pqh, pqt, prs, prq_complete,
                      resp, nposts, alg>>
       /\ Commit(b.r)

\* intel_svm_unbind(sva): pasid_mutex is taken and intel_svm_unbind_mm runs
\* up to the drain; when nothing is to be drained the call returns at once
intel_svm_unbind(sd) ==
    LET ru == [reg EXCEPT !.uaf = @ \cup Tag(ReadsFreedSdev(reg, {sd}), "unbind_handle")]
        dev == reg.sdev[sd].dev
        pasid == reg.sdev[sd].pasid
        u  == UnbindMmPre(ru, dev, pasid)
    IN /\ CallerFree
       /\ handles[sd] > 0
       /\ dev \in Dev
       /\ nops' = nops + 1
       /\ handles' = [handles EXCEPT ![sd] = @ - 1]
       /\ IF u.drain
          THEN /\ th' = [th EXCEPT !["caller"] =
                           [Idle EXCEPT !.op = "unbind", !.pc = "drain", !.dev = dev,
                                        !.pasid = ru.svm[u.svm].pasid, !.svm = u.svm,
                                        !.sdev = u.sdev, !.after = "unbind_post"]]
               /\ pasid_mutex' = "caller"
          ELSE UNCHANGED <<th, pasid_mutex>>
       /\ UNCHANGED <<work, rd, prq, pqh, pqt, prs, prq_complete, resp, unbound,
                      nposts, alg>>
       /\ Commit(u.r)

\* intel_svm_unbind_mm after the drain; pasid_mutex is released
unbind_post ==
    LET c == th["caller"]
    IN /\ c.pc = "unbind_post"
       /\ th' = [th EXCEPT !["caller"] = Idle]
       /\ pasid_mutex' = "free"
       /\ unbound' = unbound \cup {<<c.dev, c.pasid>>}
       /\ UNCHANGED <<work, handles, rd, prq, pqh, pqt, prs, prq_complete, resp,
                      nops, nposts, alg>>
       /\ Commit(UnbindMmPost(reg, c.svm, c.sdev))

\* intel_svm_bind_gpasid, before pasid_mutex: validation and fault data
bind_gpasid(dev, data, fail) ==
    LET b == BindGpasidPre(reg, dev, data)
    IN /\ th["caller"].pc = "idle" /\ Budget
       /\ nops' = nops + 1
       /\ th' = IF b.ret = "0"
                THEN [th EXCEPT !["caller"] =
                        [Idle EXCEPT !.op = "bind_gpasid", !.pc = "bind_gpasid_lock",
                                     !.dev = dev, !.pasid = data.hpasid,
                                     !.data = data, !.fail = fail]]
                ELSE th
       /\ UNCHANGED <<pasid_mutex, work, handles, rd, prq, pqh, pqt, prs,
                      prq_complete, resp, unbound, nposts, alg>>
       /\ Commit(b.r)

\* lines 461-501 under pasid_mutex
bind_gpasid_lock ==
    LET c == th["caller"]
        b == BindGpasidSvm(reg, c.dev, c.data, c.fail)
    IN /\ c.pc = "bind_gpasid_lock" /\ pasid_mutex = "free"
       /\ pasid_mutex' = "caller"
       /\ th' = [th EXCEPT !["caller"] =
                    [c EXCEPT !.pc = "bind_gpasid_dev", !.svm = b.svm,
                              !.ret = b.ret, !.go = b.go]]
       /\ UNCHANGED <<work, handles, rd, prq, pqh, pqt, prs, prq_complete, resp,
                      unbound, nops, nposts, alg>>
       /\ Commit(b.r)

\* lines 502-569 returning without mutex_unlock(&pasid_mutex)
bind_gpasid_dev_NoUnlock ==
    LET c  == th["caller"]
        b  == BindGpasidDev(reg, c.dev, c.data, c.svm, c.ret, c.go, c.fail)
        r1 == BindGpasidPost(b.r, c.dev, c.data, b.ret)
    IN /\ c.pc = "bind_gpasid_dev"
       /\ pasid_mutex' = pasid_mutex
       /\ th' = [th EXCEPT !["caller"] = Idle]
       /\ unbound' = IF b.ret = "0" THEN unbound \ {<<c.dev, c.pasid>>} ELSE unbound
       /\ UNCHANGED <<work, handles, rd, prq, pqh, pqt, prs, prq_complete, resp,
                      nops, nposts, alg>>
       /\ Commit(r1)

\* lines 502-569: the rest of the call; pasid_mutex is released
bind_gpasid_dev ==
    LET c  == th["caller"]
        b  == BindGpasidDev(reg, c.dev, c.data, c.svm, c.ret, c.go, c.fail)
        r1 == BindGpasidPost(b.r, c.dev, c.data, b.ret)
    IN /\ c.pc = "bind_gpasid_dev"
       /\ pasid_mutex' = "free"
       /\ th' = [th EXCEPT !["caller"] = Idle]
       /\ unbound' = IF b.ret = "0" THEN unbound \ {<<c.dev, c.pasid>>} ELSE unbound
       /\ UNCHANGED <<work, handles, rd, prq, pqh, pqt, prs, prq_complete, resp,
                      nops, nposts, alg>>
       /\ Commit(r1)

\* intel_svm_unbind_gpasid: pasid_mutex is taken, lines 598-609 run
unbind_gpasid(dev, pasid) ==
    LET u == UnbindGpasidPre(reg, dev, pasid)
    IN /\ CallerFree
       /\ nops' = nops + 1
       /\ pasid_mutex' = "caller"
       /\ th' = [th EXCEPT !["caller"] =
                    [Idle EXCEPT !.op = "unbind_gpasid",
                                 !.pc = IF u.drain THEN "drain" ELSE "unbind_gpasid_out",
                                 !.dev = dev, !.pasid = pasid, !.svm = u.svm,
                                 !.sdev = u.sdev, !.ret = u.ret, !.go = u.drain,
                                 !.after = "unbind_gpasid_post"]]
       /\ UNCHANGED <<work, handles, rd, prq, pqh, pqt, prs, prq_complete, resp,
                      unbound, nposts, alg>>
       /\ Commit(u.r)

\* lines 612-628 after the drain; pasid_mutex is released
unbind_gpasid_post ==
    LET c == th["caller"]
    IN /\ c.pc = "unbind_gpasid_post"
       /\ pasid_mutex' = "free"
       /\ th' = [th EXCEPT !["caller"] = [c EXCEPT !.pc = "unbind_gpasid_tail", !.svm = NULL]]
       /\ UNCHANGED <<work, handles, rd, prq, pqh, pqt, prs, prq_complete, resp,
                      unbound, nops, nposts, alg>>
       /\ Commit(UnbindGpasidPost(reg, c.pasid, c.svm))

\* nothing was removed: pasid_mutex is released at out:
unbind_gpasid_out ==
    LET c == th["caller"]
    IN /\ c.pc = "unbind_gpasid_out"
       /\ pasid_mutex' = "free"
       /\ th' = [th EXCEPT !["caller"] = [c EXCEPT !.pc = "unbind_gpasid_tail", !.svm = NULL]]
       /\ UNCHANGED <<work, handles, rd, prq, pqh, pqt, prs, prq_complete, resp,
                      unbound, nops, nposts, alg>>
       /\ Commit(reg)

\* lines 629-639: fault data and kfree_rcu(sdev), then the call returns
unbind_gpasid_tail(wild) ==
    LET c == th["caller"]
    IN /\ c.pc = "unbind_gpasid_tail"
       /\ wild => c.ret # "0"
       /\ th' = [th EXCEPT !["caller"] = Idle]
       /\ unbound' = IF c.go THEN unbound \cup {<<c.dev, c.pasid>>} ELSE unbound
       /\ UNCHANGED <<pasid_mutex, work, handles, rd, prq, pqh, pqt, prs,
                      prq_complete, resp, nops, nposts, alg>>
       /\ Commit(UnbindGpasidTail(reg, c.dev, c.pasid, c.sdev, c.ret, wild))

(***************************************************************************)
(* intel_svm_drain_prq, run by the thread t that tears a binding down      *)
(***************************************************************************)
\* the ring indices from head up to, not including, tail
RingRange(head, tail) ==
    {(head + k) % RingSize : k \in 0 .. (((tail - head + RingSize) % RingSize) - 1)}
Next1(i) == (i + 1) % RingSize

\* a scan that finds nothing
PendingFor_None(ring, head, tail, pasid) == FALSE
\* lines 989-1000: a descriptor of the pasid lies between head and tail
PendingFor(ring, head, tail, pasid) ==
    \E i \in RingRange(head, tail) : ring[i].pasid_present /\ ring[i].pasid = pasid

\* lines 967-1000: nothing is drained for a device without PRI; otherwise
\* (and again after every wait, label prq_retry) the completion is
\* reinitialised, tail and head are read and the ring is scanned
drain_scan(t) ==
    /\ th[t].pc \in {"drain", "drain_retry"}
    /\ IF th[t].pc = "drain" /\ th[t].dev \notin reg.cfg.pri
       THEN /\ th' = [th EXCEPT ![t].pc = th[t].after]
            /\ UNCHANGED prq_complete
       ELSE /\ th' = [th EXCEPT ![t].pc = IF PendingFor(prq, pqh, pqt, th[t].pasid)
                                         THEN "drain_wait" ELSE "drain_qi"]
            /\ prq_complete' = 0
    /\ UNCHANGED <<pasid_mutex, work, handles, rd, prq, pqh, pqt, prs, resp,
                   unbound, nops, nposts, alg>>
    /\ Commit(reg)

\* lines 998 and 1023: wait_for_completion returns once the PRQ thread has
\* signalled; the caller jumps back to prq_retry or qi_retry
drain_wait(t) ==
    /\ th[t].pc \in {"drain_wait", "drain_wait_qi"}
    /\ prq_complete > 0
    /\ prq_complete' = prq_complete - 1
    /\ th' = [th EXCEPT ![t].pc = IF th[t].pc = "drain_wait"
                                  THEN "drain_retry" ELSE "drain_qi"]
    /\ UNCHANGED <<pasid_mutex, work, handles, rd, prq, pqh, pqt, prs, resp,
                   unbound, nops, nposts, alg>>
    /\ Commit(reg)

\* lines 1019-1025: the drain descriptors are submitted and the overflow bit
\* read; the drain returns when it is clear
drain_qi(t) ==
    /\ th[t].pc = "drain_qi"
    /\ prq_complete' = 0
    /\ th' = [th EXCEPT ![t].pc = IF prs.pro THEN "drain_wait_qi" ELSE th[t].after]
    /\ UNCHANGED <<pasid_mutex, work, handles, rd, prq, pqh, pqt, prs, resp,
                   unbound, nops, nposts, alg>>
    /\ Commit(reg)

(***************************************************************************)
(* The cleanup worker (thread "worker")                                    *)
(***************************************************************************)
\* the queued work starts: pasid_mutex is taken (line 127)
worker_start(s) ==
    /\ s \in work
    /\ th["worker"].pc = "idle" /\ pasid_mutex = "free"
    /\ work' = work \ {s}
    /\ pasid_mutex' = "worker"
    /\ th' = [th EXCEPT !["worker"] =
                 [Idle EXCEPT !.op = "free_async", !.pc = "worker_loop", !.svm = s,
                              !.pasid = reg.svm[s].pasid, !.todo = reg.svm[s].devs]]
    /\ UNCHANGED <<handles, rd, prq, pqh, pqt, prs, prq_complete, resp, unbound,
                   nops, nposts, alg>>
    /\ Commit([reg EXCEPT !.uaf = @ \cup Tag(ReadsFreedSvm(reg, s), "worker_svm")])

\* lines 128-134: the next device binding is unlinked, its entry cleared,
\* and the drain entered (iommu->lock is held)
worker_dev ==
    LET c == th["worker"]
    IN /\ c.pc = "worker_loop" /\ c.todo # <<>>
       /\ th' = [th EXCEPT !["worker"] =
                    [c EXCEPT !.pc = "drain", !.sdev = Head(c.todo),
                              !.dev = reg.sdev[Head(c.todo)].dev,
                              !.todo = Tail(c.todo), !.after = "worker_dev_post"]]
       /\ UNCHANGED <<pasid_mutex, work, handles, rd, prq, pqh, pqt, prs,
                      prq_complete, resp, unbound, nops, nposts, alg>>
       /\ Commit(WorkerDevPre(reg, c.svm, Head(c.todo)))

\* lines 135-150 after the drain
worker_dev_post ==
    LET c == th["worker"]
    IN /\ c.pc = "worker_dev_post"
       /\ th' = [th EXCEPT !["worker"] =
                    [c EXCEPT !.pc = "worker_loop", !.sdev = NULL,
                              !.subdevs = IF c.dev \in reg.cfg.aux
                                          THEN @ \cup {c.dev} ELSE @]]
       /\ unbound' = unbound \cup {<<c.dev, c.pasid>>}
       /\ UNCHANGED <<pasid_mutex, work, handles, rd, prq, pqh, pqt, prs,
                      prq_complete, resp, nops, nposts, alg>>
       /\ Commit(WorkerDevPost(reg, c.sdev))

\* lines 157-169: the loop is over; pasid_mutex is released
worker_end ==
    LET c == th["worker"]
    IN /\ c.pc = "worker_loop" /\ c.todo = <<>>
       /\ pasid_mutex' = "free"
       /\ th' = [th EXCEPT !["worker"] = [c EXCEPT !.pc = "worker_tail", !.svm = NULL]]
       /\ UNCHANGED <<work, handles, rd, prq, pqh, pqt, prs, prq_complete, resp,
                      unbound, nops, nposts, alg>>
       /\ Commit(WorkerEnd(reg, c.svm))

\* lines 171-179
worker_tail ==
    LET c == th["worker"]
    IN /\ c.pc = "worker_tail"
       /\ th' = [th EXCEPT !["worker"] = Idle]
       /\ UNCHANGED <<pasid_mutex, work, handles, rd, prq, pqh, pqt, prs,
                      prq_complete, resp, unbound, nops, nposts, alg>>
       /\ Commit(WorkerTail(reg, c.subdevs, c.pasid))

\* the holder of iommu->lock between steps: the worker takes it at line 131
\* before the PASID entry is cleared and releases it at line 135 after
\* intel_svm_drain_prq has returned; the other sections of the lock (533-538,
\* 781-788, 808-815) lie inside one step of a bind call
iommu_lock ==
    IF /\ th["worker"].op = "free_async"
       /\ th["worker"].pc \in {"drain", "drain_retry", "drain_wait", "drain_qi",
                               "drain_wait_qi"}
    THEN "worker" ELSE "free"

(***************************************************************************)
(* The environment: address spaces, the owner of guest PASIDs, RCU         *)
(***************************************************************************)
\* the address space exits (exit_mmap): intel_mm_release runs
mm_exit(m) ==
    /\ reg.mm[m].live
    /\ Budget
    /\ nops' = nops + 1
    /\ UNCHANGED <<th, pasid_mutex, work, handles, rd, prq, pqh, pqt, prs,
                   prq_complete, resp, unbound, nposts, alg>>
    /\ Commit(MmExitReg(reg, m))

\* a guest PASID is allocated by its owner (e.g. VFIO), outside the driver
guest_pasid_alloc ==
    LET a == ioasid_alloc(reg, "guest", IOASID_ALLOC_BASE, PASID_MAX - 1, NULL)
    IN /\ a.id # INVALID_IOASID
       /\ Budget
       /\ nops' = nops + 1
       /\ UNCHANGED <<th, pasid_mutex, work, handles, rd, prq, pqh, pqt, prs,
                      prq_complete, resp, unbound, nposts, alg>>
       /\ Commit(a.r)

\* the owner frees a guest PASID: pasid_status_change is notified and may
\* queue the cleanup work of the binding
guest_pasid_free(id) ==
    /\ reg.ioasid[id].alloc /\ reg.ioasid[id].set = "guest" /\ ~reg.ioasid[id].pending
    /\ Budget
    /\ nops' = nops + 1
    /\ work' = IF pasid_status_change(reg, id)
               THEN work \cup {reg.ioasid[id].data} ELSE work
    /\ UNCHANGED <<th, pasid_mutex, handles, rd, prq, pqh, pqt, prs, prq_complete,
                   resp, unbound, nposts, alg>>
    /\ Commit(IoasidFreeReg(reg, id))

\* a grace period ends: the objects handed to kfree_rcu are freed
rcu_grace_period ==
    /\ \E s \in SdevSlot : reg.sdev[s].st = "rcu"
    /\ UNCHANGED <<th, pasid_mutex, work, handles, rd, prq, pqh, pqt, prs,
                   prq_complete, resp, unbound, nops, nposts, alg>>
    /\ Commit([reg EXCEPT !.sdev = [s \in SdevSlot |->
                 IF reg.sdev[s].st = "rcu"
                 THEN [reg.sdev[s] EXCEPT !.st = "freed"] ELSE reg.sdev[s]]])

(***************************************************************************)
(* The hardware: page requests written to the ring                         *)
(***************************************************************************)
\* the request kinds a device posts (the fields of struct page_req_dsc the
\* driver reads); addr is the class of the faulting address
PostShapes ==
    { [NoDesc EXCEPT !.pasid_present = TRUE, !.rd_req = TRUE, !.lpig = TRUE,
                     !.prg_index = 1],
      [NoDesc EXCEPT !.pasid_present = TRUE, !.wr_req = TRUE] }

\* a device can fault on a PASID while its PASID entry is programmed
CanFault(r, d, p) == d \in r.cfg.pri /\ r.pte[d][p] # "clear"

\* the hardware writes a request at the tail, or latches the overflow when
\* the ring is full; with the overflow latched requests are dropped
Post(d, p, shape) ==
    /\ nposts < MaxPosts /\ nops + nposts < MaxEvents
    /\ ~prs.pro
    /\ nposts' = nposts + 1
    /\ IF Next1(pqt) = pqh
       THEN /\ prs' = [prs EXCEPT !.pro = TRUE]
            /\ UNCHANGED <<prq, pqt>>
       ELSE /\ prq' = [prq EXCEPT ![pqt] =
                         [shape EXCEPT !.seq = nposts + 1, !.pasid = p, !.rid = d]]
            /\ pqt' = Next1(pqt)
            /\ prs' = [prs EXCEPT !.ppr = TRUE]
    /\ UNCHANGED <<th, pasid_mutex, work, handles, rd, pqh, prq_complete, resp,
                   unbound, nops, alg>>
    /\ Commit(reg)

hw_post(d, p, shape) == CanFault(reg, d, p) /\ Post(d, p, shape)

\* a request for a PASID whose entry is not programmed: a device that keeps
\* faulting after its binding is gone, or that uses a PASID given to others
hw_post_stray(d, p, shape) ==
    /\ d \in reg.cfg.pri /\ ~CanFault(reg, d, p)
    /\ <<d, p>> \in unbound \/ reg.ioasid[p].data # NULL
    /\ Post(d, p, shape)

(***************************************************************************)
(* prq_event_thread                                                        *)
(***************************************************************************)
MaxDone == 1
\* complete(): done is incremented (the waiters only test done > 0)
complete(done) == IF done < MaxDone THEN done + 1 ELSE done

\* some binding holds a device binding of device d for PASID p
HasD(r, d, p) ==
    \E s \in SvmSlot : /\ r.svm[s].st = "live" /\ r.svm[s].pasid = p
                       /\ \E n \in Range(r.svm[s].devs) : r.sdev[n].dev = d

\* lines 917-931
access_error(vm_flags, req) ==
    LET requested == (IF req.exe_req THEN {"VM_EXEC"} ELSE {})
                     \cup (IF req.rd_req THEN {"VM_READ"} ELSE {})
                     \cup (IF req.wr_req THEN {"VM_WRITE"} ELSE {})
    IN requested \ vm_flags # {}

\* find_extend_vma() for an address class: whether an area exists, and its
\* vm_flags
find_extend_vma(addr) ==
    CASE addr = "ok"       -> [found |-> TRUE, vm_flags |-> {"VM_READ", "VM_WRITE"}]
      [] addr = "readonly" -> [found |-> TRUE, vm_flags |-> {"VM_READ"}]
      [] addr = "text"     -> [found |-> TRUE, vm_flags |-> {"VM_READ", "VM_EXEC"}]
      [] OTHER             -> [found |-> FALSE, vm_flags |-> {}]

is_canonical_address(addr) == addr # "noncanonical"
\* handle_mm_fault() for an address class: 0 or VM_FAULT_ERROR
handle_mm_fault(addr) == IF addr = "fault_error" THEN "VM_FAULT_ERROR" ELSE "0"

\* a fault path that calls handle_mm_fault without looking at the access
HostFaultPath_NoAccessCheck(r, s, req) ==
    LET mm == r.svm[s].mm
    IN IF mm = NULL \/ ~is_canonical_address(req.addr) THEN [result |-> "INVALID", ops |-> <<>>]
       ELSE IF ~r.mm[mm].live THEN [result |-> "INVALID", ops |-> <<>>]
       ELSE IF ~find_extend_vma(req.addr).found
       THEN [result |-> "INVALID",
             ops |-> <<"mmget_not_zero", "mmap_read_lock", "mmap_read_unlock", "mmput">>]
       ELSE [result |-> IF handle_mm_fault(req.addr) # "0" THEN "INVALID" ELSE "SUCCESS",
             ops |-> <<"mmget_not_zero", "mmap_read_lock", "handle_mm_fault",
                       "mmap_read_unlock", "mmput">>]
\* a fault path that leaves through bad_req when the access is not permitted
HostFaultPath_NoUnlock(r, s, req) ==
    LET mm == r.svm[s].mm
    IN IF mm = NULL \/ ~is_canonical_address(req.addr) THEN [result |-> "INVALID", ops |-> <<>>]
       ELSE IF ~r.mm[mm].live THEN [result |-> "INVALID", ops |-> <<>>]
       ELSE IF ~find_extend_vma(req.addr).found
       THEN [result |-> "INVALID",
             ops |-> <<"mmget_not_zero", "mmap_read_lock", "mmap_read_unlock", "mmput">>]
       ELSE IF access_error(find_extend_vma(req.addr).vm_flags, req)
       THEN [result |-> "INVALID", ops |-> <<"mmget_not_zero", "mmap_read_lock">>]
       ELSE [result |-> IF handle_mm_fault(req.addr) # "0" THEN "INVALID" ELSE "SUCCESS",
             ops |-> <<"mmget_not_zero", "mmap_read_lock", "handle_mm_fault",
                       "mmap_read_unlock", "mmput">>]
\* lines 1183-1213: the host fault path for request req: the response code
\* and, in order, the calls that succeeded on the address space (a
\* mmget_not_zero that fails takes no reference and is not listed)
HostFaultPath(r, s, req) ==
    LET mm   == r.svm[s].mm
        held == <<"mmget_not_zero", "mmap_read_lock">>
        out  == <<"mmap_read_unlock", "mmput">>
    IN IF mm = NULL THEN [result |-> "INVALID", ops |-> <<>>]
       ELSE IF ~is_canonical_address(req.addr) THEN [result |-> "INVALID", ops |-> <<>>]
       ELSE IF ~r.mm[mm].live THEN [result |-> "INVALID", ops |-> <<>>]
       ELSE IF ~find_extend_vma(req.addr).found
       THEN [result |-> "INVALID", ops |-> held \o out]
       ELSE IF access_error(find_extend_vma(req.addr).vm_flags, req)
       THEN [result |-> "INVALID", ops |-> held \o out]
       ELSE IF handle_mm_fault(req.addr) # "0"
       THEN [result |-> "INVALID", ops |-> held \o <<"handle_mm_fault">> \o out]
       ELSE [result |-> "SUCCESS", ops |-> held \o <<"handle_mm_fault">> \o out]

\* lines 1183-1210: the result of the host fault path for request req
HostFault(r, s, req) == HostFaultPath(r, s, req).result

\* a loop that forgets to advance head
Advance_Stay(q, keep, svm) == [q EXCEPT !.pc = "svm"]
\* lines 1219-1250: the response (for lpig or private data) and the advance
\* of head; with keep the cached svm and sdev survive
Advance(q, keep, svm) ==
    LET h == Next1(q.head)
    IN [q EXCEPT !.head = h,
                 !.pc = IF h = q.tail THEN "head" ELSE "svm",
                 !.svm = IF keep THEN svm ELSE NULL,
                 !.sdev = IF keep THEN @ ELSE NULL]
\* no page group response
NoResp == [pasid |-> 0, did |-> 0, pasid_present |-> FALSE, pdp |-> FALSE,
           code |-> "NONE", idx |-> 0, lpig |-> FALSE, priv |-> 0]
\* a response that leaves the group index out
PageGroupResp_NoIndex(req, result) ==
    [pasid |-> req.pasid, did |-> req.rid, pasid_present |-> req.pasid_present,
     pdp |-> req.priv_data_present, code |-> result, idx |-> 0,
     lpig |-> req.lpig, priv |-> IF req.priv_data_present THEN req.priv_data ELSE 0]
\* lines 1227-1240: the page group response descriptor (QI_PGRP_*)
PageGroupResp(req, result) ==
    [pasid |-> req.pasid, did |-> req.rid, pasid_present |-> req.pasid_present,
     pdp |-> req.priv_data_present, code |-> result, idx |-> req.prg_index,
     lpig |-> req.lpig, priv |-> IF req.priv_data_present THEN req.priv_data ELSE 0]
\* what the PRQ thread did with request req: result is REPORT when the
\* request went to the fault sink (prq_advance), else the response code;
\* sent and desc tell whether a response was submitted, and which
Outcome(r, req, result) ==
    [seq |-> req.seq, rid |-> req.rid, pasid |-> req.pasid, result |-> result,
     sent |-> result # "REPORT" /\ (req.lpig \/ req.priv_data_present),
     desc |-> IF result # "REPORT" /\ (req.lpig \/ req.priv_data_present)
              THEN PageGroupResp(req, result) ELSE NoResp,
     late |-> <<req.rid, req.pasid>> \in unbound /\ ~HasD(r, req.rid, req.pasid)]

\* lines 1107-1111: the thread is woken by the interrupt, clears PPR and
\* reads tail and head
rd_irq ==
    /\ rd.pc = "idle" /\ prs.ppr
    /\ prs' = [prs EXCEPT !.ppr = FALSE]
    /\ rd' = [RdIdle EXCEPT !.head = pqh, !.tail = pqt,
                            !.pc = IF pqh = pqt THEN "head" ELSE "svm"]
    /\ UNCHANGED <<th, pasid_mutex, work, handles, prq, pqh, pqt, prq_complete,
                   resp, unbound, nops, nposts, alg>>
    /\ Commit(reg)

\* a validation that lets privileged-mode requests through
BadRequest_NoPm(req) ==
    \/ ~req.pasid_present
    \/ req.exe_req /\ req.rd_req
\* lines 1122-1140: the requests that go to no_pasid before any lookup
BadRequest(req) ==
    \/ ~req.pasid_present
    \/ req.pm_req /\ (req.rd_req \/ req.wr_req)
    \/ req.exe_req /\ req.rd_req

\* lines 1121-1154: the request at head is validated and its binding found
\* (the binding of the previous request is reused when the PASID matches)
rd_svm ==
    LET req == prq[rd.head]
        f   == ioasid_find(reg, "any", req.pasid)
        hit == rd.svm # NULL /\ reg.svm[rd.svm].pasid = req.pasid
        ru  == [reg EXCEPT !.uaf = @ \cup Tag(ReadsFreedSvm(reg, rd.svm), "reader_svm")]
    IN /\ rd.pc = "svm"
       /\ IF BadRequest(req)
          THEN /\ rd' = Advance(rd, TRUE, rd.svm)
               /\ resp' = Append(resp, Outcome(reg, req, "INVALID"))
               /\ UNCHANGED <<th, pasid_mutex, work, handles, prq, pqh, pqt, prs,
                              prq_complete, unbound, nops, nposts, alg>>
               /\ Commit(reg)
          ELSE IF rd.svm = ERR_PTR
          THEN \* svm->pasid is read through the error pointer of the last lookup
               /\ rd' = [rd EXCEPT !.pc = "dead"]
               /\ UNCHANGED <<th, pasid_mutex, work, handles, prq, pqh, pqt, prs,
                              prq_complete, resp, unbound, nops, nposts, alg>>
               /\ Commit([reg EXCEPT !.uaf = @ \cup {"reader_err_ptr"}])
          ELSE IF hit
          THEN /\ rd' = [rd EXCEPT !.pc = "sdev"]
               /\ UNCHANGED <<th, pasid_mutex, work, handles, prq, pqh, pqt, prs,
                              prq_complete, resp, unbound, nops, nposts, alg>>
               /\ Commit(ru)
          ELSE IF f.err # "0" \/ f.svm = NULL
          THEN /\ rd' = Advance(rd, TRUE, IF f.err # "0" THEN ERR_PTR ELSE NULL)
               /\ resp' = Append(resp, Outcome(reg, req, "INVALID"))
               /\ UNCHANGED <<th, pasid_mutex, work, handles, prq, pqh, pqt, prs,
                              prq_complete, unbound, nops, nposts, alg>>
               /\ Commit(ru)
          ELSE /\ rd' = [rd EXCEPT !.pc = "sdev", !.svm = f.svm]
               /\ UNCHANGED <<th, pasid_mutex, work, handles, prq, pqh, pqt, prs,
                              prq_complete, resp, unbound, nops, nposts, alg>>
               /\ Commit(ru)

\* lines 1156-1168: the device binding of the request's source-ID (the one
\* of the previous request is reused when the source-ID matches)
rd_sdev ==
    LET req  == prq[rd.head]
        devs == reg.svm[rd.svm].devs
        hit  == rd.sdev # NULL /\ reg.sdev[rd.sdev].sid = req.rid
        i    == FirstSid(reg, devs, req.rid)
        u    == Tag(rd.sdev # NULL /\ ReadsFreedSdev(reg, {rd.sdev}), "reader_sdev")
                \cup (IF hit THEN {}
                      ELSE Tag(ReadsFreedSvm(reg, rd.svm), "reader_svm")
                           \cup Tag(ReadsFreedSdev(reg, Visited(devs, i)),
                                    "reader_sdev"))
    IN /\ rd.pc = "sdev"
       /\ rd' = [rd EXCEPT !.pc = "handle",
                           !.sdev = IF hit THEN @
                                    ELSE IF i = 0 THEN NULL ELSE devs[i]]
       /\ UNCHANGED <<th, pasid_mutex, work, handles, prq, pqh, pqt, prs,
                      prq_complete, resp, unbound, nops, nposts, alg>>
       /\ Commit([reg EXCEPT !.uaf = @ \cup u])

\* lines 1174-1250: the request is reported to the fault sink of the device
\* (guest mode; report is the result of iommu_report_device_fault) or
\* resolved against the address space (host mode), and answered
ReportResult == {"0", "-EINVAL"}
\* a thread that never answers a request of a guest-mode binding
rd_handle_Skip(report) ==
    LET req   == prq[rd.head]
        guest == "GUEST_MODE" \in reg.svm[rd.svm].flags
    IN /\ rd.pc = "handle"
       /\ IF guest
          THEN /\ rd' = Advance(rd, TRUE, rd.svm)
               /\ resp' = Append(resp, Outcome(reg, req, "REPORT"))
          ELSE /\ report = "0"
               /\ rd' = Advance(rd, FALSE, NULL)
               /\ resp' = Append(resp, Outcome(reg, req, HostFault(reg, rd.svm, req)))
       /\ UNCHANGED <<th, pasid_mutex, work, handles, prq, pqh, pqt, prs,
                      prq_complete, unbound, nops, nposts, alg>>
       /\ Commit(reg)
rd_handle(report) ==
    LET req   == prq[rd.head]
        guest == "GUEST_MODE" \in reg.svm[rd.svm].flags
        u     == Tag(ReadsFreedSvm(reg, rd.svm), "reader_svm")
                 \cup Tag(guest /\ rd.sdev # NULL /\ ReadsFreedSdev(reg, {rd.sdev}),
                          "reader_sdev")
        ru    == [reg EXCEPT !.uaf = @ \cup u]
    IN /\ rd.pc = "handle"
       /\ IF guest
          THEN IF rd.sdev # NULL /\ report = "0"
               THEN /\ rd' = Advance(rd, TRUE, rd.svm)
                    /\ resp' = Append(resp, Outcome(reg, req, "REPORT"))
               ELSE /\ rd.sdev = NULL => report = "0"
                    /\ rd' = Advance(rd, FALSE, NULL)
                    /\ resp' = Append(resp, Outcome(reg, req, "INVALID"))
          ELSE /\ report = "0"
               /\ rd' = Advance(rd, FALSE, NULL)
               /\ resp' = Append(resp, Outcome(reg, req, HostFault(reg, rd.svm, req)))
       /\ UNCHANGED <<th, pasid_mutex, work, handles, prq, pqh, pqt, prs,
                      prq_complete, unbound, nops, nposts, alg>>
       /\ Commit(ru)

\* a PRQ thread that clears the overflow bit whenever it is set
rd_head_ClearAlways ==
    /\ rd.pc = "head"
    /\ pqh' = rd.tail
    /\ prq' = [i \in DOMAIN prq |-> IF i \in RingRange(rd.tail, pqt) THEN prq[i]
                                    ELSE NoDesc]
    /\ prs' = [prs EXCEPT !.pro = FALSE]
    /\ prq_complete' = complete(prq_complete)
    /\ rd' = RdIdle
    /\ UNCHANGED <<th, pasid_mutex, work, handles, pqt, resp, unbound, nops,
                   nposts, alg>>
    /\ Commit(reg)
\* a PRQ thread that writes the head register and signals nobody
rd_head_Silent ==
    /\ rd.pc = "head"
    /\ pqh' = rd.tail
    /\ prq' = [i \in DOMAIN prq |-> IF i \in RingRange(rd.tail, pqt) THEN prq[i]
                                    ELSE NoDesc]
    /\ prs' = IF prs.pro /\ rd.tail = pqt THEN [prs EXCEPT !.pro = FALSE] ELSE prs
    /\ rd' = RdIdle
    /\ UNCHANGED <<th, pasid_mutex, work, handles, pqt, prq_complete, resp, unbound,
                   nops, nposts, alg>>
    /\ Commit(reg)

\* lines 1252-1272: the head register is set to the sampled tail (the
\* consumed slots belong to the hardware again and are not read before it
\* has rewritten them), the overflow is cleared when the ring is empty, and
\* the waiters are woken
rd_head ==
    /\ rd.pc = "head"
    /\ pqh' = rd.tail
    /\ prq' = [i \in DOMAIN prq |-> IF i \in RingRange(rd.tail, pqt) THEN prq[i]
                                    ELSE NoDesc]
    /\ prs' = IF prs.pro /\ rd.tail = pqt THEN [prs EXCEPT !.pro = FALSE] ELSE prs
    /\ prq_complete' = complete(prq_complete)
    /\ rd' = RdIdle
    /\ UNCHANGED <<th, pasid_mutex, work, handles, pqt, resp, unbound, nops,
                   nposts, alg>>
    /\ Commit(reg)

(***************************************************************************)
(* The system                                                              *)
(***************************************************************************)
Calls ==
    \/ \E dev \in Dev, mm \in UserMm \cup {NULL}, flags \in HostFlags, fail \in BindFail :
          intel_svm_bind(dev, mm, flags, fail)
    \/ \E sd \in SdevSlot : intel_svm_unbind(sd)
    \/ unbind_post
    \/ \E dev \in Dev, data \in BindData, fail \in GuestFail : bind_gpasid(dev, data, fail)
    \/ bind_gpasid_lock
    \/ bind_gpasid_dev
    \/ \E dev \in Dev, pasid \in AnyPasid : unbind_gpasid(dev, pasid)
    \/ unbind_gpasid_post
    \/ unbind_gpasid_out
    \/ \E wild \in BOOLEAN : unbind_gpasid_tail(wild)

Drain ==
    \E t \in Thread : drain_scan(t) \/ drain_wait(t) \/ drain_qi(t)

Worker ==
    \/ \E s \in SvmSlot : worker_start(s)
    \/ worker_dev
    \/ worker_dev_post
    \/ worker_end
    \/ worker_tail

Environment ==
    \/ \E m \in UserMm : mm_exit(m)
    \/ guest_pasid_alloc
    \/ \E id \in Pasid : guest_pasid_free(id)
    \/ rcu_grace_period

Reader ==
    \/ rd_irq
    \/ rd_svm
    \/ rd_sdev
    \/ \E report \in ReportResult : rd_handle(report)
    \/ rd_head

Hardware == \E d \in Dev, p \in Pasid, shape \in PostShapes : hw_post(d, p, shape)

Next == Calls \/ Drain \/ Worker \/ Environment \/ Reader \/ Hardware

Spec == Init /\ [][Next]_vars

\* the system with devices that also fault on PASIDs without entry
HardwareStray ==
    \E d \in Dev, p \in Pasid, shape \in PostShapes : hw_post_stray(d, p, shape)
NextStray == Next \/ HardwareStray
SpecStray == Init /\ [][NextStray]_vars

\* the system with devices that also post the descriptors the PRQ thread
\* rejects at lines 1122-1140: without PASID, in privileged mode with read or
\* write, and with execute and read together
MalformedShapes ==
    { [NoDesc EXCEPT !.rd_req = TRUE, !.lpig = TRUE, !.prg_index = 1],
      [NoDesc EXCEPT !.pasid_present = TRUE, !.pm_req = TRUE, !.wr_req = TRUE],
      [NoDesc EXCEPT !.pasid_present = TRUE, !.exe_req = TRUE, !.rd_req = TRUE,
                     !.priv_data_present = TRUE, !.priv_data = 1] }
SpecMalformed ==
    Init /\ [][ \/ Next
                \/ \E d \in Dev, p \in Pasid, shape \in MalformedShapes :
                      hw_post(d, p, shape) ]_vars

\* the system with the wake-up of the PRQ thread in the two steps of the
\* source: the write that clears PPR (line 1107), then the reads of the tail
\* and head registers (lines 1109-1110), with the hardware free to post in
\* between
\* a wake-up that reads the registers first and clears PPR afterwards
rd_wake_SampleFirst ==
    /\ \/ /\ rd.pc = "idle" /\ prs.ppr
          /\ rd' = [RdIdle EXCEPT !.head = pqh, !.tail = pqt, !.pc = "sample"]
          /\ UNCHANGED prs
       \/ /\ rd.pc = "sample"
          /\ prs' = [prs EXCEPT !.ppr = FALSE]
          /\ rd' = [rd EXCEPT !.pc = IF rd.head = rd.tail THEN "head" ELSE "svm"]
    /\ UNCHANGED <<th, pasid_mutex, work, handles, prq, pqh, pqt, prq_complete,
                   resp, unbound, nops, nposts, alg>>
    /\ Commit(reg)
rd_wake ==
    /\ \/ /\ rd.pc = "idle" /\ prs.ppr
          /\ prs' = [prs EXCEPT !.ppr = FALSE]
          /\ rd' = [RdIdle EXCEPT !.pc = "sample"]
       \/ /\ rd.pc = "sample"
          /\ rd' = [RdIdle EXCEPT !.head = pqh, !.tail = pqt,
                                  !.pc = IF pqh = pqt THEN "head" ELSE "svm"]
          /\ UNCHANGED prs
    /\ UNCHANGED <<th, pasid_mutex, work, handles, prq, pqh, pqt, prq_complete,
                   resp, unbound, nops, nposts, alg>>
    /\ Commit(reg)
ReaderLatch ==
    \/ rd_wake
    \/ rd_svm
    \/ rd_sdev
    \/ \E report \in ReportResult : rd_handle(report)
    \/ rd_head
\* the PRQ thread runs whenever it can take a step (the interrupt is
\* delivered while PPR is set, and the thread is not blocked in its loop)
SpecLatch ==
    /\ Init
    /\ [][Calls \/ Drain \/ Worker \/ Environment \/ ReaderLatch \/ Hardware]_vars
    /\ WF_vars(ReaderLatch)

\* the system with a device of limited PASID width: pci_max_pasids() of
\* device 2 is below PASID_MAX, so that PASID 2 is usable by device 1 only
InitLimits ==
    /\ reg \in {InitReg([c EXCEPT !.max_pasids[2] = PASID_MAX - 1]) : c \in DevConfigs}
    /\ th = [t \in Thread |-> Idle]
    /\ pasid_mutex = "free"
    /\ work = {}
    /\ handles = [s \in SdevSlot |-> 0]
    /\ rd = RdIdle
    /\ prq = [i \in 0 .. (RingSize - 1) |-> NoDesc]
    /\ pqh = 0 /\ pqt = 0
    /\ prs = [ppr |-> FALSE, pro |-> FALSE]
    /\ prq_complete = 0
    /\ resp = <<>>
    /\ unbound = {}
    /\ nops = 0 /\ nposts = 0
    /\ alg = [kind |-> "none"]
SpecLimits == InitLimits /\ [][Next]_vars

\* the system started after the owner of the guest PASIDs (e.g. VFIO) has
\* allocated PASIDs 1 and 2, so that two guest bindings fit in a behaviour
InitGuest ==
    /\ reg \in {ioasid_alloc(a.r, "guest", IOASID_ALLOC_BASE, PASID_MAX - 1, NULL).r :
                   a \in {ioasid_alloc(InitReg(c), "guest", IOASID_ALLOC_BASE,
                                       PASID_MAX - 1, NULL) : c \in DevConfigs}}
    /\ th = [t \in Thread |-> Idle]
    /\ pasid_mutex = "free"
    /\ work = {}
    /\ handles = [s \in SdevSlot |-> 0]
    /\ rd = RdIdle
    /\ prq = [i \in 0 .. (RingSize - 1) |-> NoDesc]
    /\ pqh = 0 /\ pqt = 0
    /\ prs = [ppr |-> FALSE, pro |-> FALSE]
    /\ prq_complete = 0
    /\ resp = <<>>
    /\ unbound = {}
    /\ nops = 0 /\ nposts = 0
    /\ alg = [kind |-> "none"]
SpecGuest == InitGuest /\ [][Next]_vars

(***************************************************************************)
(* Properties                                                              *)
(***************************************************************************)
\* the bindings that can be found: by PASID lookup or in the host list
Reachable(r) ==
    ({r.ioasid[p].data : p \in Pasid} \cup Range(r.global_svm_list)) \ {NULL}

\* the device bindings (list nodes) of device d for PASID p
DeviceBindings(r, d, p) ==
    {x \in SvmSlot \X (1 .. Cardinality(SdevSlot)) :
        /\ x[1] \in Reachable(r) /\ r.svm[x[1]].pasid = p
        /\ x[2] <= Len(r.svm[x[1]].devs)
        /\ r.sdev[r.svm[x[1]].devs[x[2]]].dev = d}

\* no call of the driver and no cleanup work is in progress
Quiescent == pasid_mutex = "free" /\ \A t \in Thread : th[t].pc = "idle"

\* C1: for every (device, pasid) pair at most one device binding exists
\* across the registry, whatever calls and cleanups have run.
C1_AtMostOneD ==
    \A d \in Dev, p \in Pasid : Cardinality(DeviceBindings(reg, d, p)) <= 1

\* a device was bound twice to one address space and holds one device binding
C1_Witness ==
    \E sd \in SdevSlot :
        /\ reg.sdev[sd].st = "live" /\ reg.sdev[sd].users = 2
        /\ Cardinality(DeviceBindings(reg, reg.sdev[sd].dev, reg.sdev[sd].pasid)) = 1

\* C2: once every call and cleanup has returned, every binding that can be
\* found by PASID lookup or in the host list is allocated and has at least
\* one device binding.
C2_NoEmptyBinding ==
    Quiescent => \A s \in Reachable(reg) :
                    reg.svm[s].st = "live" /\ reg.svm[s].devs # <<>>

\* C3: a page request of (device d, pasid p) that the PRQ thread handles
\* after an unbind of (d, p) has returned, while d holds no device binding
\* for p, is neither resolved against an address space nor reported to a
\* fault sink: its result is INVALID.
C3_LateInvalid ==
    \A i \in 1 .. Len(resp) : resp[i].late => resp[i].result = "INVALID"

\* a request of an unbound device was resolved with SUCCESS while another
\* device is still bound to the PASID, and no freed memory was involved
C3_ResolvedLate ==
    \E i \in 1 .. Len(resp) :
        /\ resp[i].late /\ resp[i].result = "SUCCESS" /\ resp[i].sent
        /\ reg.uaf = {}
        /\ \E d \in Dev \ {resp[i].rid} : HasD(reg, d, resp[i].pasid)

\* C4: the PRQ thread never reads a binding or a device binding that has
\* been freed, whatever calls, failing calls and cleanup work run beside it.
C4_ReaderNoFreed == reg.uaf \cap {"reader_svm", "reader_sdev"} = {}

\* thread t returns from intel_svm_drain_prq in this step
DrainReturns(t) ==
    th[t].pc \in {"drain", "drain_qi"} /\ th'[t].pc = th[t].after

\* a descriptor with this PASID lies between the head and tail registers
PasidInRing(p) ==
    \E i \in RingRange(pqh, pqt) : prq[i].pasid_present /\ prq[i].pasid = p
\* ... and it comes from this device
PairInRing(d, p) ==
    \E i \in RingRange(pqh, pqt) :
        prq[i].pasid_present /\ prq[i].pasid = p /\ prq[i].rid = d

C6_RingOrder ==
    [][/\ (rd.pc = "idle" /\ rd'.pc # "idle") => rd'.head = pqh /\ rd'.tail = pqt
       /\ Len(resp') # Len(resp) =>
             /\ resp' = Append(resp, resp'[Len(resp')])
             /\ resp'[Len(resp')].seq = prq[rd.head].seq
             /\ rd.head # rd.tail
             /\ rd'.head = (rd.head + 1) % RingSize
             /\ Len(resp) > 0 => resp[Len(resp)].seq < resp'[Len(resp')].seq
       /\ (rd.pc # "idle" /\ rd'.pc = "idle") =>
             rd.head = rd.tail /\ pqh' = rd.tail
       /\ pqh' # pqh => rd.pc # "idle" /\ rd'.pc = "idle"]_vars

\* two requests sampled in one invocation have both been handled, and the
\* head register is about to be written
C6_Witness ==
    /\ rd.pc = "head" /\ Len(resp) >= 2
    /\ Cardinality(RingRange(pqh, rd.head)) = 2
    /\ resp[Len(resp) - 1].seq < resp[Len(resp)].seq

\* the host binds whose target address space already has a binding with a
\* device binding of the device (the binding and the nodes of its device
\* list are allocated memory)
RepeatBinds ==
    {x \in Dev \X (UserMm \cup {NULL}) \X HostFlags :
        LET e == ExistingSdev(reg, x[1], x[2])
            t == FindSvmByMm(reg, x[2])
        IN /\ e # NULL /\ reg.svm[t].st = "live"
           /\ \A n \in Range(reg.svm[t].devs) : reg.sdev[n].st \in {"live", "rcu"}}

\* C7 as stated: a host bind of a device to an address space whose binding
\* already holds a device binding of that device is refused with EALREADY
\* and leaves the registry unchanged.
C7_RepeatBindRefused ==
    pasid_mutex = "free" =>
       \A x \in RepeatBinds, fail \in BindFail :
          LET b == intel_svm_bind_mm(reg, x[1], x[3], x[2], fail)
          IN b.ret = "-EALREADY" /\ b.r = reg

\* C7 amended: such a bind, when its flags are valid, succeeds: it returns
\* the existing device binding, whose usage count grows by one and whose
\* pasid field is set to the PASID of the binding, and changes nothing else;
\* nothing in it can fail.
C7_RepeatBindCounts ==
    pasid_mutex = "free" =>
       \A x \in RepeatBinds, fail \in BindFail :
          LET b == intel_svm_bind_mm(reg, x[1], x[3], x[2], fail)
              e == ExistingSdev(reg, x[1], x[2])
          IN IF "SUPERVISOR_MODE" \in x[3] /\ x[2] # NULL
             THEN b.ret = "-EINVAL" /\ b.r = reg
             ELSE /\ b.ret = "0" /\ b.sdev = e
                  /\ b.r = [reg EXCEPT
                             !.sdev[e].users = @ + 1,
                             !.sdev[e].pasid = reg.svm[FindSvmByMm(reg, x[2])].pasid]

\* a device has been bound twice to one address space: two handles, one
\* device binding with two users
C7_Witness ==
    \E sd \in SdevSlot :
        /\ Quiescent /\ handles[sd] = 2
        /\ reg.sdev[sd].st = "live" /\ reg.sdev[sd].users = 2

\* C8: an unbind or unbind_gpasid of a (device, pasid) in range that has no
\* device binding (no binding for the pasid, or none of the device in it)
\* returns success and changes nothing.
C8_UnbindIdempotent ==
    pasid_mutex = "free" =>
       \A d \in Dev, p \in Pasid, wild \in BOOLEAN :
          DeviceBindings(reg, d, p) = {} =>
             /\ intel_svm_unbind_mm(reg, d, p) = [r |-> reg, ret |-> "0"]
             /\ intel_svm_unbind_gpasid(reg, d, p, wild) = [r |-> reg, ret |-> "0"]

(***************************************************************************)
(* The calls as functions of the registry: round trip and commutation      *)
(***************************************************************************)
\* what a registry holds, whatever memory its objects occupy: the bindings
\* with their device sets and usage counts, the allocated PASIDs with their
\* reference counts, the observers of each address space, the PASID entries
View(r) ==
    [bindings  |-> {[pasid |-> r.svm[s].pasid, mm |-> r.svm[s].mm,
                     guest |-> "GUEST_MODE" \in r.svm[s].flags,
                     devs  |-> {[dev |-> r.sdev[n].dev, users |-> r.sdev[n].users] :
                                   n \in Range(r.svm[s].devs)}] :
                       s \in Reachable(r)},
     pasids    |-> [p \in Pasid |-> [alloc |-> r.ioasid[p].alloc,
                                     refs  |-> r.ioasid[p].refs,
                                     bound |-> r.ioasid[p].data # NULL]],
     observers |-> [m \in UserMm |-> {r.svm[s].pasid : s \in r.mm[m].notifiers}],
     pte       |-> r.pte]

\* every binding of the registry is live and was made by host-mode binds only
HostOnly(r) ==
    \A s \in Reachable(r) :
       /\ r.svm[s].st = "live" /\ "GUEST_MODE" \notin r.svm[s].flags
       /\ \A n \in Range(r.svm[s].devs) : r.sdev[n].st = "live" /\ r.sdev[n].users >= 1

\* the system while no device faults: the drain never has to wait
DrainQuiet == \E t \in Thread : drain_scan(t) \/ drain_qi(t)
Evolve ==
    /\ alg.kind = "none"
    /\ Calls \/ DrainQuiet \/ Worker \/ Environment
    /\ nops' <= MaxAlgOps

\* intel_svm_bind(d, mm) followed by intel_svm_unbind of the returned handle,
\* from a registry no call is working on
round_trip(dev, mm, flags) ==
    /\ alg.kind = "none" /\ Quiescent
    /\ mm # NULL => reg.mm[mm].live
    /\ \E b \in {intel_svm_bind_mm(reg, dev, flags, mm, "none")} :
          /\ b.ret = "0"
          /\ \E u \in {intel_svm_unbind_mm(b.r, dev, b.r.sdev[b.sdev].pasid)} :
                alg' = [kind  |-> "round_trip",
                        first |-> FindSvmByMm(reg, mm) = NULL,
                        host  |-> HostOnly(reg),
                        same  |-> View(u.r) = View(reg)]
    /\ UNCHANGED <<reg, th, pasid_mutex, work, handles, rd, prq, pqh, pqt, prs,
                   prq_complete, resp, unbound, nops, nposts>>

(* -------- intel_svm_page_response (lines 1328-1407) --------------------- *)
\* the fault events and response codes a caller passes: the flags of
\* evt->fault.prm, its pasid, grpid and private_data, and msg->code
PageRequestEvt == [pasid_valid : BOOLEAN, last_page : BOOLEAN, priv_data : BOOLEAN,
                   pasid : AnyPasid, grpid : {1}, private_data : {1}]

\* the registry the call leaves, its return value and the descriptor it
\* hands to qi_submit_sync (NoResp: none)
intel_svm_page_response(r, dev, evt, code) ==
    IF ~evt.pasid_valid
    THEN [r |-> r, ret |-> "-EINVAL", desc |-> NoResp]
    ELSE IF evt.pasid = 0 \/ evt.pasid >= PASID_MAX
    THEN [r |-> r, ret |-> "-EINVAL", desc |-> NoResp]
    ELSE Only({ IF l.ret # "0" \/ l.sdev = NULL
                THEN [r |-> [r EXCEPT !.uaf = @ \cup l.uaf], ret |-> "-ENODEV",
                      desc |-> NoResp]
                ELSE [r |-> [r EXCEPT !.uaf = @ \cup l.uaf], ret |-> "0",
                      desc |-> IF evt.last_page \/ evt.priv_data
                               THEN [pasid |-> evt.pasid, did |-> dev,
                                     pasid_present |-> evt.pasid_valid,
                                     pdp |-> evt.priv_data, code |-> code,
                                     idx |-> evt.grpid, lpig |-> evt.last_page,
                                     priv |-> IF evt.priv_data THEN evt.private_data
                                                               ELSE 0]
                               ELSE NoResp]
                : l \in {pasid_to_svm_sdev(r, dev, "any", evt.pasid)} })

\* one call of intel_svm_page_response on the registry as it stands
page_response(dev, evt, code) ==
    /\ alg.kind = "none" /\ Quiescent
    /\ \E o \in {intel_svm_page_response(reg, dev, evt, code)} :
          alg' = [kind |-> "page_response", dev |-> dev, evt |-> evt, code |-> code,
                  ret |-> o.ret, desc |-> o.desc,
                  bound |-> DeviceBindings(reg, dev, evt.pasid) # {},
                  same |-> [o.r EXCEPT !.uaf = reg.uaf] = reg]
    /\ UNCHANGED <<reg, th, pasid_mutex, work, handles, rd, prq, pqh, pqt, prs,
                   prq_complete, resp, unbound, nops, nposts>>

\* the address space changes the mapping of [start, end): the
\* invalidate_range callback of an attached observer runs
range_invalidated(m, s, start, end) ==
    /\ alg.kind = "none"
    /\ reg.mm[m].live /\ s \in reg.mm[m].notifiers
    /\ start < end
    /\ alg' = [kind |-> "range", start |-> start, end |-> end,
               ats |-> reg.cfg.ats,
               devs |-> intel_invalidate_range(reg, s, start, end)]
    /\ UNCHANGED <<reg, th, pasid_mutex, work, handles, rd, prq, pqh, pqt, prs,
                   prq_complete, resp, unbound, nops, nposts>>
SpecFlush ==
    Init /\ [][ \/ Evolve
                \/ \E m \in UserMm, s \in SvmSlot,
                      start \in 0 .. TASK_SIZE, end \in 0 .. TASK_SIZE :
                      range_invalidated(m, s, start, end) ]_vars

\* the calls of the binding interface with their arguments
Op == [kind : {"bind", "unbind", "bind_gpasid", "unbind_gpasid"}, dev : Dev,
       mm : UserMm \cup {NULL}, flags : HostFlags, pasid : Pasid]
\* only bind takes an address space and flags, and it takes no PASID
Ops == {o \in Op : IF o.kind = "bind" THEN o.pasid = IOASID_ALLOC_BASE
                                      ELSE o.mm = NULL /\ o.flags = {}}

\* call o on registry r: the registry it leaves, its return value and the
\* PASID it worked on (for a bind, the PASID of the device binding returned)
Apply(r, o) ==
    IF o.kind = "bind"
    THEN Only({[r |-> b.r, ret |-> b.ret,
                pasid |-> IF b.ret = "0" THEN b.r.sdev[b.sdev].pasid ELSE 0] :
                  b \in {intel_svm_bind_mm(r, o.dev, o.flags, o.mm, "none")}})
    ELSE Only({[r |-> u.r, ret |-> u.ret, pasid |-> o.pasid] :
                  u \in {IF o.kind = "unbind"
                         THEN intel_svm_unbind_mm(r, o.dev, o.pasid)
                         ELSE IF o.kind = "bind_gpasid"
                         THEN intel_svm_bind_gpasid(r, o.dev,
                                 [hpasid |-> o.pasid, gpasid |-> 0,
                                  fault_data |-> FALSE], "none")
                         ELSE intel_svm_unbind_gpasid(r, o.dev, o.pasid, FALSE)}})

\* two calls on different devices run one after the other in both orders
\* (o1 then o2: a1, a2; o2 then o1: b2, b1), from a registry no call is
\* working on; the two registries are compared when all four calls succeeded
commute(o1, o2) ==
    /\ alg.kind = "none" /\ Quiescent /\ o1.dev < o2.dev
    /\ \A o \in {o1, o2} : o.mm # NULL => reg.mm[o.mm].live
    /\ \E a1 \in {Apply(reg, o1)}, b2 \in {Apply(reg, o2)} :
          /\ a1.ret = "0" /\ b2.ret = "0"
          /\ \E a2 \in {Apply(a1.r, o2)}, b1 \in {Apply(b2.r, o1)} :
                /\ a2.ret = "0" /\ b1.ret = "0"
                /\ alg' = [kind  |-> "commute", k1 |-> o1.kind, k2 |-> o2.kind,
                           apart |-> a1.pasid # a2.pasid /\ b1.pasid # b2.pasid,
                           fixed |-> a1.pasid = b1.pasid /\ a2.pasid = b2.pasid,
                           acted |-> View(a1.r) # View(reg) /\ View(b2.r) # View(reg),
                           same  |-> View(a2.r) = View(b1.r)]
    /\ UNCHANGED <<reg, th, pasid_mutex, work, handles, rd, prq, pqh, pqt, prs,
                   prq_complete, resp, unbound, nops, nposts>>

NextAlg ==
    \/ Evolve
    \/ \E dev \in Dev, mm \in UserMm \cup {NULL}, flags \in HostFlags :
          round_trip(dev, mm, flags)
    \/ \E o1, o2 \in Ops : commute(o1, o2)
    \/ \E dev \in Dev, evt \in PageRequestEvt,
          code \in {"SUCCESS", "INVALID"} :
          page_response(dev, evt, code)
SpecAlg == Init /\ [][NextAlg]_vars

\* C9: a successful host bind of a device followed by the unbind of the
\* returned handle leaves the registry as it was before the bind: bindings,
\* device sets, usage counts, allocated PASIDs, reference counts, observers
\* and PASID entries.
C9_RoundTrip == alg.kind = "round_trip" => alg.same

\* the round trip of the first device of an address space
C9_Witness == alg.kind = "round_trip" /\ alg.first /\ alg.same

\* C9 on registries that only host-mode binds have worked on
C9_RoundTripHost == alg.kind = "round_trip" /\ alg.host => alg.same
\* the round trip that breaks: the device already has a binding, made by bind_gpasid
C9_CrossMode == alg.kind = "round_trip" /\ ~alg.host /\ ~alg.first /\ ~alg.same
GuestBindData ==
    {[hpasid |-> p, gpasid |-> g, fault_data |-> f] :
        p \in AnyPasid, g \in {0, 1}, f \in BOOLEAN}

\* what a failing call must leave as it was: the registry as View shows it,
\* the guest PASID attached to each PASID and the per-PASID fault data
Unwound(r) ==
    [view  |-> View(r),
     spid  |-> [p \in Pasid |-> r.ioasid[p].spid],
     fdata |-> r.fdata]

\* C11: an intel_svm_bind_gpasid that returns an error leaves no new
\* binding or device binding, no change of any PASID entry, no fault data of
\* its own, and the reference count, private data and guest PASID of the
\* PASID as they were before the call.
C11_GuestBindUnwinds ==
    pasid_mutex = "free" =>
       \A dev \in Dev, data \in GuestBindData, fail \in GuestFail :
          \A b \in {intel_svm_bind_gpasid(reg, dev, data, fail)} :
             b.ret # "0" => Unwound(b.r) = Unwound(reg)

\* a guest PASID without binding whose reference count is above the one
\* reference of its owner: a failed bind has returned and left its own
C11_LeakedReference ==
    \E p \in Pasid :
       /\ Quiescent /\ reg.ioasid[p].alloc /\ reg.ioasid[p].set = "guest"
       /\ reg.ioasid[p].data = NULL /\ reg.ioasid[p].refs = 2

\* C12: an intel_svm_bind_mm that returns an error leaves the registry as it
\* was before the call: no binding, no device binding, no allocated PASID,
\* no observer, no PASID entry and no PASID of the address space has changed
\* (but for the record of reads of freed memory), so that the same call can
\* be made again.
C12_HostBindUnwinds ==
    pasid_mutex = "free" =>
       \A dev \in Dev, mm \in UserMm \cup {NULL}, flags \in HostFlags, fail \in BindFail :
          \A b \in {intel_svm_bind_mm(reg, dev, flags, mm, fail)} :
             b.ret # "0" => [b.r EXCEPT !.uaf = reg.uaf] = reg

\* a registry that holds a binding, and in which the first bind of another
\* address space fails at the PASID entry, after its PASID was allocated
C12_Witness ==
    /\ Quiescent /\ reg.global_svm_list # <<>> /\ reg.uaf = {}
    /\ \E dev \in Dev, mm \in UserMm :
          /\ reg.mm[mm].live /\ FindSvmByMm(reg, mm) = NULL
          /\ \E p \in Pasid : p >= IOASID_ALLOC_BASE /\ ~reg.ioasid[p].alloc
          /\ intel_svm_bind_mm(reg, dev, {}, mm, "setup").ret = "-EINVAL"

\* C13: while intel_svm_unbind_mm destroys a binding of an address space, at
\* no point of the destruction is the PASID reference of the binding already
\* released while its observer is still attached: the observer is detached
\* first, the reference is released next, the binding is unlinked and freed
\* last.
C13_ReleaseOrder ==
    \A s \in SvmSlot :
       (/\ th["caller"].pc = "unbind_post" /\ th["caller"].svm = s
        /\ reg.svm[s].st = "live" /\ reg.svm[s].mm # NULL
        /\ s \in reg.mm[reg.svm[s].mm].notifiers
        /\ kfree_rcu(reg, th["caller"].sdev).svm[s].devs = <<>>)
       => \A i \in 1 .. 4 :
             LET x == FreeHostSvmSteps(kfree_rcu(reg, th["caller"].sdev), s)[i]
             IN s \in x.mm[reg.svm[s].mm].notifiers
                   => x.ioasid[reg.svm[s].pasid] = reg.ioasid[reg.svm[s].pasid]

\* the last device of a binding of an address space has been drained and the
\* binding, whose observer is attached and whose PASID is allocated, is about
\* to be destroyed
C13_Destroying ==
    \E s \in SvmSlot :
        /\ th["caller"].pc = "unbind_post" /\ th["caller"].svm = s
        /\ reg.svm[s].st = "live" /\ reg.svm[s].mm # NULL
        /\ s \in reg.mm[reg.svm[s].mm].notifiers
        /\ reg.svm[s].devs = <<>>
        /\ reg.ioasid[reg.svm[s].pasid].alloc /\ reg.ioasid[reg.svm[s].pasid].refs = 1

\* C14: in every state with no call and no cleanup in progress, the PASID
\* entry of (device, pasid) is programmed exactly when a device binding
\* exists for (device, pasid), also after the address space of the binding
\* has exited.
C14_EntryIffD ==
    Quiescent => \A d \in Dev, p \in Pasid :
                    (reg.pte[d][p] # "clear") <=> (DeviceBindings(reg, d, p) # {})

\* the address space of binding s, if it has one, has not exited
MmLive(r, s) == r.svm[s].mm = NULL \/ r.mm[r.svm[s].mm].live

\* The same with the exit of the address space set aside (intel_mm_release
\* clears the entry of every device of the binding and leaves the device
\* bindings): the entry is clear when no device binding exists for the pair,
\* and programmed when one exists in a binding whose address space has not
\* exited.
C14_EntryIffDLive ==
    Quiescent => \A d \in Dev, p \in Pasid :
                    /\ DeviceBindings(reg, d, p) = {} => reg.pte[d][p] = "clear"
                    /\ \A x \in DeviceBindings(reg, d, p) :
                          MmLive(reg, x[1]) => reg.pte[d][p] # "clear"

\* no call and no cleanup is in progress, the address space is live, and a
\* PASID entry is programmed for a pair that no device binding of the
\* registry belongs to
C14_Witness ==
    /\ Quiescent /\ \A m \in UserMm : reg.mm[m].live
    /\ \E d \in Dev, p \in Pasid :
          reg.pte[d][p] # "clear" /\ DeviceBindings(reg, d, p) = {}

\* binding s of registry r is a host-mode binding of an address space
HostWithMm(r, s) ==
    r.svm[s].st = "live" /\ r.svm[s].mm # NULL /\ "GUEST_MODE" \notin r.svm[s].flags

C16_FreeCleanup ==
    /\ reg.uaf \cap {"worker_svm", "worker_sdev", "double_free_svm"} = {}
    /\ (Quiescent /\ work = {}) =>
          \A p \in Pasid :
             reg.ioasid[p].alloc /\ reg.ioasid[p].pending =>
                /\ reg.ioasid[p].data = NULL
                /\ \A d \in Dev : reg.pte[d][p] = "clear"

\* intel_svm_unbind_gpasid has removed a device binding and freed the binding
\* while its cleanup work was queued, and the work has freed the binding again
C16_FreedTwice ==
    /\ "double_free_svm" \in reg.uaf /\ unbound # {}
    /\ th["worker"].pc = "worker_tail" /\ th["caller"].pc = "idle"

\* The system with the scheduling intel_svm_drain_prq relies on: the PRQ
\* thread runs whenever it has something to do (its interrupt is pending or
\* it is in a pass over the ring), and a thread inside the drain keeps
\* running.  The hardware of Next posts requests only for programmed PASID
\* entries, and the fenced invalidation of drain_qi completes.
SpecFair ==
    /\ Init /\ [][Next]_vars
    /\ WF_vars(Reader)
    /\ \A t \in Thread : WF_vars(drain_scan(t) \/ drain_wait(t) \/ drain_qi(t))

\* thread t is inside intel_svm_drain_prq
InDrain(t) ==
    th[t].pc \in {"drain", "drain_retry", "drain_wait", "drain_qi", "drain_wait_qi"}

AddrClass == {"ok", "readonly", "text", "unmapped", "noncanonical", "fault_error"}
ReqVariants(req) ==
    {[req EXCEPT !.rd_req = a, !.wr_req = b, !.exe_req = x, !.lpig = l,
                 !.priv_data_present = d, !.prg_index = 1, !.priv_data = 1,
                 !.addr = ad] :
        a \in BOOLEAN, b \in BOOLEAN, x \in BOOLEAN, l \in BOOLEAN, d \in BOOLEAN,
        ad \in AddrClass}

\* handle_mm_fault was called for req on host-mode binding s and succeeded
Resolved(r, s, req) ==
    /\ "GUEST_MODE" \notin r.svm[s].flags
    /\ r.svm[s].mm # NULL /\ r.mm[r.svm[s].mm].live
    /\ is_canonical_address(req.addr)
    /\ find_extend_vma(req.addr).found
    /\ ~access_error(find_extend_vma(req.addr).vm_flags, req)
    /\ handle_mm_fault(req.addr) = "0"

\* outcome o answers request req as required when the resolver result is ok
Answered(o, req, ok) ==
    /\ o.sent <=> (req.lpig \/ req.priv_data_present)
    /\ o.sent => /\ o.desc.pasid = req.pasid /\ o.desc.did = req.rid
                 /\ o.desc.pasid_present = req.pasid_present
                 /\ o.desc.idx = req.prg_index /\ o.desc.lpig = req.lpig
                 /\ o.desc.pdp = req.priv_data_present
                 /\ req.priv_data_present => o.desc.priv = req.priv_data
                 /\ o.desc.code = o.result
    /\ ~o.sent => o.desc = NoResp
    /\ o.result = IF ok THEN "SUCCESS" ELSE "INVALID"

\* C18: for every request that is not handed to the fault sink the PRQ
\* thread submits one page group response if the request has lpig or private
\* data, and none otherwise; the response echoes pasid, source-ID,
\* pasid_present, group index, lpig and the private data, and its code is
\* SUCCESS exactly when handle_mm_fault succeeded and INVALID otherwise; no
\* request is answered twice.  Checked for the request the thread handles
\* and for every variant of it.
C18_OneResponse ==
    /\ [](rd.pc = "handle" /\ "GUEST_MODE" \notin reg.svm[rd.svm].flags =>
             \A req \in ReqVariants(prq[rd.head]) :
                Answered(Outcome(reg, req, HostFault(reg, rd.svm, req)), req,
                         Resolved(reg, rd.svm, req)))
    /\ [][Len(resp') # Len(resp) =>
             (resp'[Len(resp')].result # "REPORT" =>
                 Answered(resp'[Len(resp')], prq[rd.head],
                          rd.pc = "handle" /\ Resolved(reg, rd.svm, prq[rd.head])))]_vars
    /\ [](\A i, j \in 1 .. Len(resp) : i # j => resp[i].seq # resp[j].seq)

\* the thread has answered one request with SUCCESS, echoing its group index,
\* and has handled another one, which asked for no response, without sending
C18_Witness ==
    /\ \E i \in 1 .. Len(resp) :
          resp[i].sent /\ resp[i].result = "SUCCESS" /\ resp[i].desc.idx = 1
    /\ \E j \in 1 .. Len(resp) : ~resp[j].sent /\ resp[j].result = "SUCCESS"

\* the PRQ thread finishes, in this step, a request of a guest-mode binding
GuestHandled ==
    /\ rd.pc = "handle" /\ "GUEST_MODE" \in reg.svm[rd.svm].flags
    /\ Len(resp') # Len(resp)

\* C19: a request of a guest-mode binding is handed to the fault sink and
\* the PRQ thread submits no response for it, whatever the hand-off returns.
C19_GuestNeverAnswered ==
    [][GuestHandled =>
          /\ resp'[Len(resp')].result = "REPORT"
          /\ ~resp'[Len(resp')].sent]_vars

\* C19 amended: a request of a guest-mode binding is handed to the fault
\* sink, and when the hand-off succeeds the PRQ thread submits no response;
\* when the binding has no device binding for the source-ID of the request,
\* or the hand-off fails, the thread answers INVALID itself if the request
\* has lpig or private data.
C19_GuestAnsweredOnFailure ==
    [][GuestHandled =>
          LET o == resp'[Len(resp')]
          IN /\ o.result \in {"REPORT", "INVALID"}
             /\ o.result = "REPORT" => ~o.sent /\ rd.sdev # NULL
             /\ rd.sdev = NULL => o.result = "INVALID"
             /\ o.result = "INVALID" =>
                   /\ o.sent <=> (prq[rd.head].lpig \/ prq[rd.head].priv_data_present)
                   /\ o.sent => o.desc.code = "INVALID"]_vars

\* of two requests of guest-mode bindings one went to the fault sink without
\* a response and one was answered INVALID by the PRQ thread
C19_Witness ==
    /\ \E i \in 1 .. Len(resp) : resp[i].result = "REPORT" /\ ~resp[i].sent
    /\ \E j \in 1 .. Len(resp) :
          /\ resp[j].result = "INVALID" /\ resp[j].sent
          /\ \E s \in Reachable(reg) :
                /\ reg.svm[s].st = "live" /\ "GUEST_MODE" \in reg.svm[s].flags
                /\ reg.svm[s].pasid = resp[j].pasid
                /\ \E n \in Range(reg.svm[s].devs) : reg.sdev[n].sid = resp[j].rid

\* C20: no thread holds pasid_mutex while it waits inside
\* intel_svm_drain_prq, for the completion of the PRQ thread or for the
\* drain descriptors it submits to the hardware, be it in unbind, in
\* unbind_gpasid or in the cleanup work.
C20_NoMutexInDrain ==
    \A t \in Thread :
        th[t].pc \in {"drain_wait", "drain_qi", "drain_wait_qi"} => pasid_mutex # t

\* the cleanup work waits for the PRQ thread inside the drain, holding
\* pasid_mutex, while a request of its PASID is in the ring
C20_WorkerWaits ==
    /\ th["worker"].pc = "drain_wait" /\ pasid_mutex = "worker"
    /\ prq_complete = 0 /\ PendingFor(prq, pqh, pqt, th["worker"].pasid)

\* C21: for a host-mode binding the fault path yields SUCCESS exactly when
\* the binding has an address space, the address is canonical, a reference
\* on the address space could be taken, an area covers the address, the area
\* permits every access the request asks for, and handle_mm_fault returned
\* no error; handle_mm_fault is not called for a supervisor binding, a
\* non-canonical address, an exiting address space or a forbidden access.
\* Checked for the request the PRQ thread handles and every variant of it.
C21_ResolverSuccess ==
    rd.pc = "handle" /\ "GUEST_MODE" \notin reg.svm[rd.svm].flags =>
       \A req \in ReqVariants(prq[rd.head]) :
          LET p    == HostFaultPath(reg, rd.svm, req)
              mm   == reg.svm[rd.svm].mm
              area == find_extend_vma(req.addr)
              asks == {f \in {"VM_READ", "VM_WRITE", "VM_EXEC"} :
                          \/ f = "VM_READ" /\ req.rd_req
                          \/ f = "VM_WRITE" /\ req.wr_req
                          \/ f = "VM_EXEC" /\ req.exe_req}
              may  == /\ mm # NULL /\ req.addr # "noncanonical" /\ reg.mm[mm].live
                      /\ area.found /\ asks \subseteq area.vm_flags
          IN /\ p.result = "SUCCESS" <=> (may /\ req.addr # "fault_error")
             /\ p.result \in {"SUCCESS", "INVALID"}
             /\ (\E i \in 1 .. Len(p.ops) : p.ops[i] = "handle_mm_fault") <=> may

\* the PRQ thread has resolved a request with SUCCESS and is about to handle
\* a request of a host-mode binding whose address space is live
C21_Witness ==
    /\ rd.pc = "handle" /\ "GUEST_MODE" \notin reg.svm[rd.svm].flags
    /\ reg.svm[rd.svm].mm # NULL /\ reg.mm[reg.svm[rd.svm].mm].live
    /\ \E i \in 1 .. Len(resp) : resp[i].result = "SUCCESS"

\* C22: intel_svm_page_response returns an error and submits nothing when
\* the event lacks the PASID-valid flag, when its pasid is 0 or not below
\* PASID_MAX, or when no device binding exists for (device, pasid); otherwise
\* it returns 0 and submits one page group response with the caller's
\* response code if the event has the last-page or the private-data flag,
\* and none if it has neither.  The registry is the same after the call.
C22_PageResponse ==
    alg.kind = "page_response" =>
        LET e   == alg.evt
            bad == \/ ~e.pasid_valid
                   \/ e.pasid = 0 \/ e.pasid >= PASID_MAX
                   \/ ~alg.bound
        IN /\ alg.same
           /\ bad => alg.ret # "0" /\ alg.desc = NoResp
           /\ ~bad /\ (e.last_page \/ e.priv_data) =>
                 /\ alg.ret = "0" /\ alg.desc # NoResp
                 /\ alg.desc.code = alg.code /\ alg.desc.pasid = e.pasid
                 /\ alg.desc.did = alg.dev
           /\ ~bad /\ ~e.last_page /\ ~e.priv_data =>
                 alg.ret = "0" /\ alg.desc = NoResp

\* a well-formed response for a device that holds a device binding for the
\* PASID is refused
C22_BoundRefused ==
    /\ alg.kind = "page_response" /\ alg.bound /\ alg.ret = "-ENODEV"
    /\ alg.evt.pasid_valid /\ alg.evt.last_page

\* the part of C22 that does not depend on which bindings the lookup finds:
\* errors submit nothing, a successful call found a device binding and
\* submits by the flags of the event, and the registry is left alone
C22_PageResponseSound ==
    alg.kind = "page_response" =>
        LET e == alg.evt
        IN /\ alg.same
           /\ ~e.pasid_valid \/ e.pasid = 0 \/ e.pasid >= PASID_MAX \/ ~alg.bound
                 => alg.ret # "0"
           /\ alg.ret # "0" => alg.desc = NoResp
           /\ alg.ret = "0" =>
                 IF e.last_page \/ e.priv_data
                 THEN /\ alg.desc # NoResp /\ alg.desc.code = alg.code
                      /\ alg.desc.pasid = e.pasid /\ alg.desc.did = alg.dev
                      /\ alg.desc.idx = e.grpid /\ alg.desc.lpig = e.last_page
                 ELSE alg.desc = NoResp

\* C23: a descriptor without pasid_present, or with pm_req together with
\* rd_req or wr_req, or with exe_req and rd_req together, is a bad request:
\* the PRQ thread looks up no binding and resolves no fault for it (its
\* cached svm and sdev stay as they are), answers it with INVALID when lpig
\* or priv_data_present asks for a response, leaves the registry unchanged
\* and goes on with the next descriptor.
C23_BadRequest ==
    [][ LET req == prq[rd.head]
            bad == \/ ~req.pasid_present
                   \/ req.pm_req /\ (req.rd_req \/ req.wr_req)
                   \/ req.exe_req /\ req.rd_req
        IN rd.pc = "svm" /\ rd' # rd /\ bad =>
              /\ reg' = reg
              /\ rd'.svm = rd.svm /\ rd'.sdev = rd.sdev
              /\ rd'.head = Next1(rd.head)
              /\ rd'.pc = IF rd'.head = rd.tail THEN "head" ELSE "svm"
              /\ Len(resp') = Len(resp) + 1
              /\ SubSeq(resp', 1, Len(resp)) = resp
              /\ LET o == resp'[Len(resp')]
                 IN /\ o.seq = req.seq /\ o.result = "INVALID"
                    /\ o.sent = (req.lpig \/ req.priv_data_present)
                    /\ o.sent => /\ o.desc.code = "INVALID"
                                 /\ o.desc.did = req.rid
                                 /\ o.desc.idx = req.prg_index
                    /\ ~o.sent => o.desc = NoResp ]_vars

\* each kind of bad request went through the PRQ thread: two were answered
\* with INVALID, the one without lpig and private data was not answered
C23_Witness ==
    /\ \E i \in DOMAIN resp :
          resp[i].sent /\ resp[i].desc.code = "INVALID" /\ ~resp[i].desc.pasid_present
    /\ \E i \in DOMAIN resp :
          resp[i].result = "INVALID" /\ ~resp[i].sent /\ resp[i].desc = NoResp

\* C24: the host fault path is balanced whatever its result: the reference
\* on the address space (mmget_not_zero) and its reader lock (mmap_read_lock)
\* are each taken at most once, the lock only after the reference, and each
\* one taken is released exactly once (mmap_read_unlock, then mmput) before
\* the PRQ thread leaves the request, with SUCCESS or with INVALID;
\* handle_mm_fault runs only between lock and unlock.  Checked for the
\* request the PRQ thread handles and every variant of it.
C24_Balanced ==
    rd.pc = "handle" /\ "GUEST_MODE" \notin reg.svm[rd.svm].flags =>
       \A req \in ReqVariants(prq[rd.head]) :
          LET p      == HostFaultPath(reg, rd.svm, req)
              at(op) == {i \in 1 .. Len(p.ops) : p.ops[i] = op}
              get    == at("mmget_not_zero")
              put    == at("mmput")
              lock   == at("mmap_read_lock")
              unlock == at("mmap_read_unlock")
          IN /\ p.result \in {"SUCCESS", "INVALID"}
             /\ Cardinality(get) <= 1 /\ Cardinality(put) = Cardinality(get)
             /\ Cardinality(lock) <= 1 /\ Cardinality(unlock) = Cardinality(lock)
             /\ \A i \in lock : \E j \in get : j < i
             /\ \A i \in unlock : \E j \in lock : j < i
             /\ \A i \in put : (\E j \in get : j < i) /\ (\A j \in unlock : j < i)
             /\ \A i \in get : \E j \in lock : i < j
             /\ \A i \in at("handle_mm_fault") :
                   (\E j \in lock : j < i) /\ (\E j \in unlock : i < j)
             /\ p.result = "SUCCESS" => get # {} /\ lock # {}

\* the PRQ thread handles a request on a host-mode binding whose path takes
\* the reference and the lock, and a variant of the request takes both and
\* ends in INVALID
C24_Witness ==
    /\ rd.pc = "handle" /\ "GUEST_MODE" \notin reg.svm[rd.svm].flags
    /\ Len(HostFaultPath(reg, rd.svm, prq[rd.head]).ops) = 5
    /\ \E req \in ReqVariants(prq[rd.head]) :
          /\ HostFaultPath(reg, rd.svm, req).result = "INVALID"
          /\ Len(HostFaultPath(reg, rd.svm, req).ops) = 4

\* C25: on every teardown of a (device, pasid) binding (intel_svm_unbind_mm,
\* intel_svm_unbind_gpasid, intel_svm_free_async_fn) the device binding is
\* off the device set and its PASID entry is clear when the drain is invoked,
\* and a device binding is reclaimed, and a binding freed with its device set
\* empty, only by a thread whose drain for the pair has returned.
C25_TeardownOrder ==
    /\ [](\A t \in Thread :
             th[t].pc = "drain" /\ th[t].sdev # NULL =>
                /\ reg.sdev[th[t].sdev].st = "live"
                /\ \A s \in SvmSlot : th[t].sdev \notin Range(reg.svm[s].devs)
                /\ reg.pte[reg.sdev[th[t].sdev].dev][th[t].pasid] = "clear")
    /\ [][ \A n \in SdevSlot :
              reg.sdev[n].st = "live" /\ reg'.sdev[n].st # "live" =>
                 /\ \A s \in SvmSlot : n \notin Range(reg.svm[s].devs)
                 /\ \E t \in Thread :
                       /\ th[t].sdev = n
                       /\ th[t].pc \in {"unbind_post", "unbind_gpasid_tail",
                                        "worker_dev_post"}
                       /\ th[t].op = "unbind_gpasid" => th[t].go ]_vars

\* intel_svm_unbind_gpasid has removed nothing and drained nothing, and is
\* about to reclaim a device binding that is still on its device set
C25_ReclaimedInPlace ==
    /\ th["caller"].pc = "unbind_gpasid_tail" /\ ~th["caller"].go
    /\ th["caller"].sdev # NULL /\ th["caller"].ret = "0"
    /\ reg.sdev[th["caller"].sdev].st = "live"
    /\ \E s \in SvmSlot : /\ reg.svm[s].st = "live"
                          /\ th["caller"].sdev \in Range(reg.svm[s].devs)

\* C26: no posted page request is lost.  The PRQ thread clears PPR before it
\* reads the tail and head registers, so whenever the thread is idle and the
\* ring holds descriptors PPR is set, and every descriptor the hardware has
\* written to the ring is eventually handled by the thread, which runs
\* whenever PPR is set.
C26_NoLostFault ==
    /\ [](rd.pc = "idle" /\ pqh # pqt => prs.ppr)
    /\ \A k \in 1 .. MaxPosts :
          (\E i \in DOMAIN prq : prq[i].seq = k)
             ~> (\E j \in DOMAIN resp : resp[j].seq = k)

\* a request was posted after the PRQ thread had read the tail register: the
\* thread is in its loop, the request lies beyond the sampled tail and PPR is
\* set again
C26_Witness ==
    /\ rd.pc \in {"svm", "sdev", "handle", "head"}
    /\ rd.tail # pqt /\ prs.ppr
    /\ prq[rd.tail].seq > 0

\* C27: the overflow bit PRO is cleared only by the PRQ thread at the end of
\* a pass, in a state where PRO is set and the head register, just written
\* with the sampled tail, equals the tail register; when PRO is set and the
\* two differ PRO stays set.  Either way the pass writes the head register
\* and signals prq_complete once.
C27_OverflowLatch ==
    [][ /\ prs.pro /\ ~prs'.pro => rd.pc = "head" /\ rd'.pc = "idle" /\ pqh' = pqt'
        /\ rd.pc = "head" /\ rd' # rd =>
              /\ pqh' = rd.tail /\ pqt' = pqt /\ rd'.pc = "idle"
              /\ prs'.pro = (prs.pro /\ pqh' # pqt')
              /\ prs'.ppr = prs.ppr
              /\ prq_complete' = IF prq_complete < MaxDone THEN prq_complete + 1
                                                           ELSE prq_complete
              /\ prq_complete' > 0 ]_vars

\* the PRQ thread has ended a pass with PRO set and left it set: it is idle
\* and signalled, PRO is set, and the ring is neither empty nor full
C27_Witness ==
    /\ rd.pc = "idle" /\ prq_complete > 0 /\ prs.pro
    /\ pqh # pqt /\ Next1(pqt) # pqh

\* C28: the release callback of an attached observer, whenever it runs,
\* reads the binding and its device bindings (allocated memory only), clears
\* the PASID entry of every device on the device set of the binding and
\* changes nothing else: the binding, its device set, the usage counts, the
\* PASID reference, the list of bindings and the observers stay as they are.
C28_ReleaseFrame ==
    \A m \in UserMm : reg.mm[m].live =>
       \A s \in reg.mm[m].notifiers :
          LET x == intel_mm_release(reg, s)
          IN /\ x.uaf = reg.uaf
             /\ \A n \in Range(reg.svm[s].devs) :
                   x.pte[reg.sdev[n].dev][reg.svm[s].pasid] = "clear"
             /\ \A d \in Dev, p \in Pasid :
                   x.pte[d][p] # reg.pte[d][p] =>
                      /\ p = reg.svm[s].pasid
                      /\ \E n \in Range(reg.svm[s].devs) : reg.sdev[n].dev = d
             /\ [x EXCEPT !.pte = reg.pte] = reg

\* an observer is attached to a live address space and its binding is freed
C28_ReleaseOnFreed ==
    \E m \in UserMm :
       /\ reg.mm[m].live
       /\ \E s \in reg.mm[m].notifiers : reg.svm[s].st # "live"

\* C28 for the callback of a binding that is allocated, with its device
\* bindings allocated
C28_ReleaseFrameLive ==
    \A m \in UserMm : reg.mm[m].live =>
       \A s \in reg.mm[m].notifiers :
          (/\ reg.svm[s].st = "live"
           /\ \A n \in Range(reg.svm[s].devs) : reg.sdev[n].st \in {"live", "rcu"}) =>
             LET x == intel_mm_release(reg, s)
             IN /\ x.uaf = reg.uaf
                /\ \A n \in Range(reg.svm[s].devs) :
                      x.pte[reg.sdev[n].dev][reg.svm[s].pasid] = "clear"
                /\ \A d \in Dev, p \in Pasid :
                      x.pte[d][p] # reg.pte[d][p] =>
                         /\ p = reg.svm[s].pasid
                         /\ \E n \in Range(reg.svm[s].devs) : reg.sdev[n].dev = d
                /\ [x EXCEPT !.pte = reg.pte] = reg

\* C29: for an invalidated range [start, end) of n >= 1 pages (n the number
\* of pages of end - start, rounded up) every device of the binding gets
\* PASID-based IOTLB flushes of 2^k pages each, k the least exponent with
\* 2^k >= n: each flush is aligned to its own size, the flushes are
\* contiguous, one or two in number, and together cover [start, end); a
\* device-TLB flush of order k goes with each of them exactly when the device
\* has ATS enabled.
C29_FlushBlocks ==
    alg.kind = "range" =>
       LET page == 2 ^ VTD_PAGE_SHIFT
           n    == (alg.end - alg.start + page - 1) \div page
           k    == CHOOSE e \in 0 .. BITS_PER_LONG :
                      2 ^ e >= n /\ \A x \in 0 .. (e - 1) : 2 ^ x < n
           size == (2 ^ k) * page
       IN /\ n >= 1
          /\ \A i \in DOMAIN alg.devs :
                LET f == alg.devs[i].flushes
                IN /\ Len(f) \in {1, 2}
                   /\ \A j \in DOMAIN f :
                         /\ f[j].pages = 2 ^ k
                         /\ f[j].address % size = 0
                         /\ f[j].dev_tlb = (alg.devs[i].dev \in alg.ats)
                         /\ f[j].dev_tlb => f[j].order = k
                   /\ \A j \in 1 .. (Len(f) - 1) : f[j + 1].address = f[j].address + size
                   /\ f[1].address <= alg.start
                   /\ f[Len(f)].address + size >= alg.end

\* a range of three pages that starts inside a page: two flushes of four
\* pages for a device with ATS
C29_Witness ==
    /\ alg.kind = "range"
    /\ alg.start % (2 ^ VTD_PAGE_SHIFT) # 0
    /\ \E i \in DOMAIN alg.devs :
          /\ Len(alg.devs[i].flushes) = 2
          /\ alg.devs[i].flushes[1].pages = 4
          /\ alg.devs[i].flushes[1].dev_tlb

\* C30: the system is free of deadlock.  pasid_mutex is held only by a
\* caller or the cleanup worker inside a call; iommu->lock, which the worker
\* holds around its drain, is taken with pasid_mutex held; the PRQ thread and
\* the release callback take no step that acquires, releases or waits for
\* pasid_mutex, and the PRQ thread inside a pass can always take its next
\* step; and in no state are the parties blocked on each other: as long as
\* a caller or the worker is inside a call, work is queued or the PRQ
\* thread is inside a pass, one of them can take a step.
C30_DeadlockFree ==
    /\ [](/\ pasid_mutex \in Thread \cup {"free"}
          /\ \A t \in Thread :
                /\ pasid_mutex = t => th[t].pc # "idle"
                /\ th[t].op = "free_async" /\ th[t].pc \in {"drain", "drain_retry",
                      "drain_wait", "drain_qi", "drain_wait_qi"} => pasid_mutex = t
          /\ rd.pc \in {"svm", "sdev", "handle", "head"} => ENABLED Reader
          /\ (\/ \E t \in Thread : th[t].pc # "idle"
              \/ work # {}
              \/ rd.pc # "idle")
                => ENABLED (\/ Reader \/ Drain \/ Worker
                            \/ unbind_post
                            \/ bind_gpasid_lock \/ bind_gpasid_dev
                            \/ unbind_gpasid_post \/ unbind_gpasid_out
                            \/ \E wild \in BOOLEAN : unbind_gpasid_tail(wild)))
    /\ [][ rd' # rd \/ (\E m \in UserMm : reg.mm[m].live /\ ~reg'.mm[m].live)
              => pasid_mutex' = pasid_mutex /\ th' = th ]_vars

\* the worker waits in its drain with pasid_mutex and iommu->lock held
\* while the PRQ thread is inside a pass
C30_Witness ==
    /\ pasid_mutex = "worker" /\ th["worker"].pc = "drain_wait"
    /\ rd.pc \in {"svm", "sdev", "handle", "head"}

\* the live bindings of global_svm_list (the bindings host-mode bind made)
HostBindings(r) == {s \in Range(r.global_svm_list) : r.svm[s].st = "live"}

\* C31: a binding that host-mode bind creates has a PASID p with
\* 1 <= p < min(PASID limit of the device, PASID limit of the IOMMU); a bind
\* of a further device to an existing host-mode binding whose PASID is not
\* below that device's limit fails with -ENOSPC and leaves the registry as
\* it was; hence the PASID of a host-mode binding is below the PASID limit
\* of the device of each of its device bindings.
C31_PasidRange ==
    /\ [](/\ \A dev \in Dev, mm \in UserMm \cup {NULL}, flags \in HostFlags :
               LET t == FindSvmByMm(reg, mm)
                   b == intel_svm_bind_mm(reg, dev, flags, mm, "none")
               IN (/\ t \in HostBindings(reg)
                   /\ "SUPERVISOR_MODE" \in flags => mm = NULL
                   /\ reg.svm[t].pasid >= reg.cfg.max_pasids[dev])
                     => b.ret = "-ENOSPC" /\ b.r = reg
          /\ \A s \in HostBindings(reg) : \A i \in DOMAIN reg.svm[s].devs :
               LET sd == reg.svm[s].devs[i]
               IN reg.sdev[sd].st = "live"
                    => reg.svm[s].pasid < reg.cfg.max_pasids[reg.sdev[sd].dev])
    /\ [][ \A s \in HostBindings(reg') \ Range(reg.global_svm_list) :
               LET p == reg'.svm[s].pasid
               IN /\ p >= 1
                  /\ \A i \in DOMAIN reg'.svm[s].devs :
                        p < Min({reg.cfg.max_pasids[reg'.sdev[reg'.svm[s].devs[i]].dev],
                                 intel_pasid_max_id}) ]_vars

\* a host-mode binding holds PASID 2, which device 2 cannot use, and device 1
\* is bound to it: a bind of device 2 to its address space is refused
C31_Witness ==
    \E s \in HostBindings(reg) :
       /\ reg.svm[s].pasid >= reg.cfg.max_pasids[2]
       /\ reg.svm[s].mm \in UserMm
       /\ reg.svm[s].devs # <<>>
       /\ intel_svm_bind_mm(reg, 2, {}, reg.svm[s].mm, "none").ret = "-ENOSPC"

\* C32: when the PRQ thread settles on the binding and the device binding
\* for the descriptor at head (looked up or kept from the descriptor
\* before), the binding is the one registered for the descriptor's PASID
\* and the device binding is the member of that binding's list with the
\* descriptor's source-ID.
C32_CachedPair ==
    [][ LET req == prq[rd.head]
        IN /\ rd.pc = "svm" /\ rd'.pc = "sdev"
                => rd'.svm = ioasid_find(reg, "any", req.pasid).svm
           /\ rd.pc = "sdev" /\ rd'.pc = "handle" /\ rd'.sdev # NULL
                => /\ rd'.sdev \in Range(reg.svm[rd.svm].devs)
                   /\ reg.sdev[rd'.sdev].sid = req.rid ]_vars

\* the PRQ thread handles a descriptor with the binding of its PASID and the
\* device binding of another binding: both bindings are live and registered,
\* the device binding is on the list of the other one
C32_StaleDevice ==
    /\ rd.pc = "handle" /\ rd.sdev # NULL
    /\ reg.svm[rd.svm].st = "live"
    /\ ioasid_find(reg, "any", prq[rd.head].pasid).svm = rd.svm
    /\ rd.sdev \notin Range(reg.svm[rd.svm].devs)
    /\ \E s \in SvmSlot \ {rd.svm} :
          /\ reg.svm[s].st = "live"
          /\ ioasid_find(reg, "any", reg.svm[s].pasid).svm = s
          /\ rd.sdev \in Range(reg.svm[s].devs)

\* C33: the PRQ thread never obtains a binding that a bind call is still
\* setting up: when it settles on the binding of a descriptor (by the PASID
\* lookup or from the descriptor before) while intel_svm_bind_gpasid is
\* between the creation of that binding and its out: label, the binding has
\* a device binding on its list and its mode is set (guest mode, or a host
\* binding on global_svm_list).
C33_VisibleInitialised ==
    [][ (/\ rd.pc = "svm" /\ rd'.pc = "sdev"
         /\ \E t \in Thread : /\ th[t].pc = "bind_gpasid_dev" /\ th[t].go
                              /\ th[t].svm = rd'.svm)
          => LET s == rd'.svm
             IN /\ reg.svm[s].st = "live"
                /\ reg.svm[s].devs # <<>>
                /\ \/ "GUEST_MODE" \in reg.svm[s].flags
                   \/ s \in Range(reg.global_svm_list) ]_vars

\* the PRQ thread holds the binding that intel_svm_bind_gpasid has created
\* and attached to the PASID at lines 479-501, while the call has not yet
\* added the device binding nor set SVM_FLAG_GUEST_MODE
C33_HalfBound ==
    /\ rd.pc \in {"sdev", "handle"}
    /\ th["caller"].pc = "bind_gpasid_dev" /\ th["caller"].go
    /\ th["caller"].svm = rd.svm
    /\ reg.svm[rd.svm].st = "live"
    /\ reg.svm[rd.svm].devs = <<>>
    /\ "GUEST_MODE" \notin reg.svm[rd.svm].flags

\* C34: no thread is inside intel_svm_drain_prq, which waits for the PRQ
\* thread's completion and for the invalidation queue, while it holds
\* iommu->lock.
C34_NoWaitUnderSpinlock ==
    \A t \in Thread :
       th[t].pc \in {"drain", "drain_retry", "drain_wait", "drain_qi", "drain_wait_qi"}
          => iommu_lock # t

\* the cleanup worker sleeps in wait_for_completion(&iommu->prq_complete),
\* not yet signalled, with iommu->lock held
C34_WorkerSleepsLocked ==
    /\ iommu_lock = "worker"
    /\ th["worker"].pc = "drain_wait"
    /\ prq_complete = 0

\* C35: a device binding taken off a device list is reclaimed, and reclaimed
\* once: no device binding is handed to kfree_rcu twice, and once no call
\* and no cleanup work is in progress every allocated device binding is
\* still on the device list of a binding (one that was removed has been
\* handed to kfree_rcu), whether or not its device has an aux domain.
C35_ReclaimedOnce ==
    /\ "double_free_sdev" \notin reg.uaf
    /\ (Quiescent /\ work = {}) =>
          \A sd \in SdevSlot :
             reg.sdev[sd].st = "live" =>
                \E s \in SvmSlot : sd \in Range(reg.svm[s].devs)

\* the cleanup worker has destroyed a binding and returned; the device
\* binding of a device without aux domain that it took off the list is
\* still allocated and on no list
C35_Leaked ==
    /\ Quiescent /\ work = {}
    /\ \E sd \in SdevSlot :
          /\ reg.sdev[sd].st = "live"
          /\ reg.sdev[sd].dev \notin reg.cfg.aux
          /\ <<reg.sdev[sd].dev, 1>> \in unbound \/ <<reg.sdev[sd].dev, 2>> \in unbound
          /\ \A s \in SvmSlot : sd \notin Range(reg.svm[s].devs)
    /\ reg.uaf = {}

\* C36: intel_svm_unbind_gpasid reclaims a device binding only when the
\* same call took it off its device list (its usage count reached 0); a
\* device binding whose count stays above 0 stays on the list and allocated,
\* so that no device list of a binding holds a reclaimed device binding.
C36_ReclaimsRemovedOnly ==
    /\ [](\A s \in SvmSlot :
             reg.svm[s].st = "live" =>
                \A i \in DOMAIN reg.svm[s].devs :
                   reg.sdev[reg.svm[s].devs[i]].st = "live")
    /\ [][ th["caller"].pc = "unbind_gpasid_tail" /\ th'["caller"].pc = "idle"
             => \A n \in SdevSlot :
                   reg.sdev[n].st = "live" /\ reg'.sdev[n].st # "live"
                      => /\ n = th["caller"].sdev /\ th["caller"].go
                         /\ reg.sdev[n].users = 0 ]_vars

\* intel_svm_unbind_gpasid has returned; the device binding it found, made
\* by a host-mode bind and still in use, is on the device list of its
\* binding and has been handed to kfree_rcu
C36_FreedOnList ==
    /\ Quiescent
    /\ \E s \in SvmSlot :
          /\ reg.svm[s].st = "live" /\ s \in Range(reg.global_svm_list)
          /\ \E i \in DOMAIN reg.svm[s].devs :
                LET sd == reg.svm[s].devs[i]
                IN /\ reg.sdev[sd].st \in {"rcu", "freed"}
                   /\ reg.sdev[sd].users > 0
                   /\ handles[sd] > 0

\* C37: the usage count of a host-mode device binding is the number of
\* successful binds of its device to the address space minus the number of
\* unbinds (the handles in use; a host-mode device binding is one with
\* sdev->pasid set, line 824); the device binding is on the device list
\* of its binding exactly while the count is positive; and an unbind clears
\* the PASID entry and runs the drain exactly when it brings the count to 0.
C37_UsageCount ==
    /\ [](/\ \A s \in HostBindings(reg) : \A i \in DOMAIN reg.svm[s].devs :
                LET sd == reg.svm[s].devs[i]
                IN reg.sdev[sd].pasid # 0 =>
                      /\ reg.sdev[sd].st = "live"
                      /\ reg.sdev[sd].users = handles[sd]
                      /\ reg.sdev[sd].users > 0
          /\ \A sd \in SdevSlot :
                handles[sd] > 0 =>
                   \E s \in HostBindings(reg) : sd \in Range(reg.svm[s].devs))
    /\ [][ \A sd \in SdevSlot :
              handles'[sd] < handles[sd] =>
                 LET d == reg.sdev[sd].dev
                     p == reg.sdev[sd].pasid
                 IN IF handles'[sd] > 0
                    THEN /\ reg'.pte = reg.pte
                         /\ th' = th
                         /\ reg'.sdev[sd].users = handles'[sd]
                    ELSE /\ reg'.pte[d][p] = "clear"
                         /\ th'["caller"].pc = "drain"
                         /\ \A s \in SvmSlot : sd \notin Range(reg'.svm[s].devs) ]_vars

\* intel_svm_unbind_gpasid has brought the usage count of a host-mode device
\* binding to 0 and taken it off the list, while the handle that
\* intel_svm_bind returned for it is still in use
C37_CountLost ==
    /\ Quiescent
    /\ \E sd \in SdevSlot :
          /\ handles[sd] = 1
          /\ reg.sdev[sd].pasid # 0 /\ reg.sdev[sd].users = 0
          /\ \A s \in SvmSlot : sd \notin Range(reg.svm[s].devs)

\* C38: the mode of a binding is fixed at its creation: a binding on
\* global_svm_list keeps its flags and its address space as long as it is
\* allocated, never carries SVM_FLAG_GUEST_MODE, and holds no device binding
\* made by intel_svm_bind_gpasid, so that the page requests of its PASID are
\* resolved against its address space.
C38_ModeFixed ==
    /\ [](\A s \in HostBindings(reg) :
             /\ "GUEST_MODE" \notin reg.svm[s].flags
             /\ \A i \in DOMAIN reg.svm[s].devs :
                   LET sd == reg.svm[s].devs[i]
                   IN reg.sdev[sd].st = "live" => reg.sdev[sd].pasid # 0)
    /\ [][ \A s \in HostBindings(reg) :
              reg'.svm[s].st = "live" =>
                 /\ reg'.svm[s].flags = reg.svm[s].flags
                 /\ reg'.svm[s].mm = reg.svm[s].mm
                 /\ reg'.svm[s].pasid = reg.svm[s].pasid ]_vars

\* the PRQ thread is about to handle a page request of a binding that
\* intel_svm_bind made for a user address space and that
\* intel_svm_bind_gpasid has since put into guest mode: the request is
\* reported to the guest's fault handler and not resolved
C38_HostTurnedGuest ==
    /\ rd.pc = "handle"
    /\ rd.svm \in HostBindings(reg)
    /\ reg.svm[rd.svm].mm \in UserMm
    /\ "GUEST_MODE" \in reg.svm[rd.svm].flags
    /\ rd.sdev # NULL /\ reg.sdev[rd.sdev].st = "live" /\ reg.sdev[rd.sdev].pasid # 0
    /\ reg.uaf = {}

\* C39: a PASID entry is programmed in supervisor mode only by a host bind
\* that carries SVM_FLAG_SUPERVISOR_MODE, on an IOMMU with supervisor request
\* support; a host bind without address space and without the flag returns
\* -EINVAL and leaves the registry as it is.
C39_SupervisorByFlagOnly ==
    /\ [](\A dev \in Dev, flags \in HostFlags, mm \in UserMm \cup {NULL},
             fail \in BindFail :
             LET b == intel_svm_bind_mm(reg, dev, flags, mm, fail)
             IN /\ (\E p \in Pasid : /\ b.r.pte[dev][p] = "supervisor"
                                     /\ reg.pte[dev][p] # "supervisor")
                      => "SUPERVISOR_MODE" \in flags /\ reg.cfg.srs
                /\ mm = NULL /\ "SUPERVISOR_MODE" \notin flags
                      => b.ret = "-EINVAL" /\ b.r = reg)
    /\ [][ \A d \in Dev, p \in Pasid :
              reg'.pte[d][p] = "supervisor" /\ reg.pte[d][p] # "supervisor"
                 => \E sd \in SdevSlot : handles'[sd] = handles[sd] + 1 ]_vars

\* intel_svm_bind without address space and without flags has succeeded: its
\* binding has no address space and no SVM_FLAG_SUPERVISOR_MODE, and the
\* PASID entry of its device is programmed in supervisor mode
C39_SupervisorWithoutFlag ==
    \E s \in HostBindings(reg) :
       /\ reg.svm[s].mm = NULL /\ reg.svm[s].flags = {}
       /\ \E i \in DOMAIN reg.svm[s].devs :
             LET sd == reg.svm[s].devs[i]
             IN /\ reg.sdev[sd].st = "live" /\ handles[sd] = 1
                /\ reg.pte[reg.sdev[sd].dev][reg.svm[s].pasid] = "supervisor"

\* C40: the cleanup work never runs on a freed binding: while the work of a
\* binding is queued the binding stays allocated (whoever frees the binding
\* cancels the work first), and the step that starts intel_svm_free_async_fn
\* starts it on a binding that is allocated.
C40_WorkerOnLiveBinding ==
    /\ [](\A s \in work : reg.svm[s].st = "live")
    /\ [][ th["worker"].pc = "idle" /\ th'["worker"].pc = "worker_loop"
              => reg.svm[th'["worker"].svm].st = "live" ]_vars

\* intel_svm_free_async_fn has just taken pasid_mutex for a binding that
\* intel_svm_unbind_gpasid freed while the work was queued
C40_WorkerOnFreed ==
    /\ th["worker"].op = "free_async" /\ th["worker"].pc = "worker_loop"
    /\ reg.svm[th["worker"].svm].st = "freed"
    /\ "worker_svm" \in reg.uaf /\ "double_free_svm" \notin reg.uaf
    /\ \E d \in Dev : <<d, th["worker"].pasid>> \in unbound
====
